---- MODULE Spec2Model ----
(***************************************************************************)
(* Model of the policy interception layer of overmind-python:              *)
(*   overmind/clients/openai.py     OpenAI request wrapper, response hook  *)
(*                                  and endpoint handlers                  *)
(*   overmind/clients/anthropic.py  Anthropic wrapper, hook and handler    *)
(*   overmind/clients/google.py     Google generate_content wrapper        *)
(*   overmind/clients/overmind_client.py  run_layer / get_layer, and the   *)
(*                                  construction of OvermindClient         *)
(*   overmind/tracer.py             the trace_function decorator           *)
(*   overmind/utils/api_settings.py get_api_settings                       *)
(*   overmind/utils/dump_logs.py    ingest_logs and its loaders            *)
(*                                                                         *)
(* A Python dict is a function whose domain is its set of keys.  A value   *)
(* that may be a str or a list is a tagged record (kind = "str"/"blocks"). *)
(* The remote policy service is the environment: every run_layer call of   *)
(* a hook takes its result from a tape of outcomes chosen by the action.   *)
(*                                                                         *)
(* Seven specifications share the variables: Spec (one request at a time   *)
(* through a client), SpecFlight (several requests of one client in        *)
(* flight), SpecTrace (calls of decorated functions and of run_layer, with *)
(* their spans), SpecSdk (key resolution and SDK initialisation), SpecHttp *)
(* (construction of a wrapped client, requests without a body or with an   *)
(* unusual one, and a request built again), SpecTwin (two runs of one      *)
(* request under different verdicts) and SpecIngest (one ingest_logs       *)
(* call).                                                                  *)
(***************************************************************************)
EXTENDS Integers, Sequences, FiniteSets, TLC

VARIABLES client, phase, req, resp, flight, trace, sdk, http, twin, ingest

vars == <<client, phase, req, resp, flight, trace, sdk, http, twin, ingest>>

(***************************************************************************)
(* Bounds of the model.                                                    *)
(***************************************************************************)
\* longest policy list (client-wide default or per-request override)
MaxPolicies == 2
\* number of earlier conversation turns before the last message
MaxHistory == 1

(***************************************************************************)
(* Python values.                                                          *)
(***************************************************************************)
\* Python's None, where the other values of the same slot are strings
None == "<None>"

\* dict helpers
Has(d, k) == k \in DOMAIN d
Without(d, ks) == [k \in (DOMAIN d) \ ks |-> d[k]]
With(d, k, v) == [x \in (DOMAIN d) \cup {k} |-> IF x = k THEN v ELSE d[x]]

\* str content / list-of-blocks content of a message
Str(t) == [kind |-> "str", text |-> t]
Blocks(bs) == [kind |-> "blocks", blocks |-> bs]

\* `a or b` on strings: a is falsy when it is None or the empty string
py_or(a, b) == IF a = None \/ a = "" THEN b ELSE a

\* the per-request override keys of a body
OverrideKeys == {"input_policies", "output_policies"}

(***************************************************************************)
(* overmind_client.py: the policy registry and the runner.                 *)
(***************************************************************************)
\* get_layer: the names the factory knows
RegisteredPolicies ==
    { "anonymize_pii", "reject_irrelevant_answer",
      "reject_prompt_injection", "reject_llm_judge_with_criteria" }

\* the policy names requests and clients use in this model
PolicyNames == {"anonymize_pii", "reject_irrelevant_answer", "not_a_real_policy"}

PolicyLists == UNION { [1..n -> PolicyNames] : n \in 0..MaxPolicies }

\* what layer.run can do: raise, or return a response with processed_data
\* (a string or None) and a verdict
Raised == [raised |-> TRUE, processed_data |-> None, overall_policy_outcome |-> None]
Returned(pd, verdict) ==
    [raised |-> FALSE, processed_data |-> pd, overall_policy_outcome |-> verdict]

LayerOutcomes ==
    { Raised, Returned(None, "pass"), Returned("", "pass"),
      Returned("p", "fail") }

\* the errors a run_layer call can end with
NoError == None
InvalidLayerName == "ValueError: Invalid layer name"
LayerRunError == "error raised by layer.run"

\* get_layer: the factory raises ValueError for a name it does not know
get_layer(policy) ==
    IF policy \in RegisteredPolicies THEN NoError ELSE InvalidLayerName

\* str(value) of a string or None
str(value) == IF value = None THEN "None" ELSE value

\* the record of one run_layer call:
\*   error       what the call raised, or NoError
\*   span        the span execute_policy_{policy} was opened
\*   remote      layer.run was called
\*   span_name   the name the span was started with
\*   attributes  the set_attribute calls made on the span: they follow
\*               layer.run inside the with block
\*   span_ended  how many times the span was ended: the with block ends it
\*               on every exit
layer_call(policy, input_data, question, res, error, span, remote) ==
    [policy |-> policy, input_data |-> input_data, question |-> question,
     raised |-> res.raised, processed_data |-> res.processed_data,
     overall_policy_outcome |-> res.overall_policy_outcome,
     error |-> error, span |-> span, remote |-> remote,
     span_name |-> IF span THEN "execute_policy_" \o policy ELSE None,
     attributes |->
         IF span /\ ~res.raised
         THEN [inputs |-> str(input_data),
               outputs |-> str(res.processed_data),
               policy_outcome |-> res.overall_policy_outcome,
               policy_results |-> "policy_results"]
         ELSE <<>>,
     span_ended |-> IF span THEN 1 ELSE 0]

\* a runner that opens the span before it resolves the layer
run_layer_span_first(policy, input_data, question, outcome) ==
    IF get_layer(policy) # NoError
    THEN layer_call(policy, input_data, question, Raised,
                    InvalidLayerName, TRUE, FALSE)
    ELSE layer_call(policy, input_data, question, outcome,
                    IF outcome.raised THEN LayerRunError ELSE NoError,
                    TRUE, TRUE)

\* OvermindClient.run_layer: get_layer, then the span, then layer.run (the
\* remote execution) inside the span
run_layer(policy, input_data, question, outcome) ==
    IF get_layer(policy) # NoError
    THEN layer_call(policy, input_data, question, Raised,
                    InvalidLayerName, FALSE, FALSE)
    ELSE layer_call(policy, input_data, question, outcome,
                    IF outcome.raised THEN LayerRunError ELSE NoError,
                    TRUE, TRUE)

\* the calls a hook can make for a policy list before get_layer raises
RECURSIVE RunnableFrom(_, _)
RunnableFrom(policies, i) ==
    IF i > Len(policies) \/ policies[i] \notin RegisteredPolicies THEN 0
    ELSE 1 + RunnableFrom(policies, i + 1)
Runnable(policies) == RunnableFrom(policies, 1)

\* the outcomes of the next n run_layer calls; what follows a raise is
\* never read, so it is fixed
Tapes(n) ==
    { tape \in [1..n -> LayerOutcomes] :
        \A i \in 1..(n - 1) : tape[i].raised => tape[i + 1].raised }

(***************************************************************************)
(* openai.py / anthropic.py: BaseHandler._run_input_policies_messages.     *)
(* st = [text, calls, raised]: the text so far (inputs[-1]), the run_layer *)
(* calls made so far in this hook, and whether one of them raised.         *)
(***************************************************************************)
\* a loop in which a fail verdict stops the request
carry_blocking_fail(st, res) ==
    [text   |-> IF res.raised THEN st.text
                ELSE py_or(res.processed_data, st.text),
     calls  |-> Append(st.calls, res),
     raised |-> res.raised \/ res.overall_policy_outcome = "fail"]

\* one turn of the loop: inputs[-1] = res.processed_data or inputs[-1]
carry(st, res) ==
    [text   |-> IF res.raised THEN st.text
                ELSE py_or(res.processed_data, st.text),
     calls  |-> Append(st.calls, res),
     raised |-> res.raised]

RECURSIVE run_input_policies_messages_from(_, _, _, _)
run_input_policies_messages_from(st, input_policies, tape, i) ==
    IF i > Len(input_policies) \/ st.raised THEN st
    ELSE run_input_policies_messages_from(
             carry(st, run_layer(input_policies[i], st.text, None,
                                 tape[Len(st.calls) + 1])),
             input_policies, tape, i + 1)

\* OpenAI BaseHandler._run_input_policies_messages on inputs = [text];
\* calls are the run_layer calls this hook made before
run_input_policies_messages(text, calls, input_policies, tape) ==
    run_input_policies_messages_from(
        [text |-> text, calls |-> calls, raised |-> FALSE],
        input_policies, tape, 1)

\* Anthropic BaseHandler._run_input_policies_messages
RECURSIVE anthropic_run_input_policies_messages_from(_, _, _, _)
anthropic_run_input_policies_messages_from(st, input_policies, tape, i) ==
    IF i > Len(input_policies) \/ st.raised THEN st
    ELSE anthropic_run_input_policies_messages_from(
             carry(st, run_layer(input_policies[i], st.text, None,
                                 tape[Len(st.calls) + 1])),
             input_policies, tape, i + 1)

anthropic_run_input_policies_messages(text, calls, input_policies, tape) ==
    anthropic_run_input_policies_messages_from(
        [text |-> text, calls |-> calls, raised |-> FALSE],
        input_policies, tape, 1)

(***************************************************************************)
(* openai.py: the endpoint handlers.                                       *)
(* A pre_request result is [json, calls, raised]: the body put in          *)
(* kwargs["json"], the run_layer calls made, and whether it raised.        *)
(***************************************************************************)
NoHandler == None

\* OpenAI._get_handler
get_handler(path) ==
    IF path = "/v1/responses" THEN "responsesHandler"
    ELSE IF path = "/v1/chat/completions" THEN "chatCompletionHandler"
    ELSE IF path = "/v1/audio/speech" THEN "audioSpeechHandler"
    ELSE IF path = "/v1/responses/compact" THEN "responsesCompactHandler"
    ELSE NoHandler

\* an assignment that overwrites every element of the list
SetLast_every_turn(seq, v) == [i \in DOMAIN seq |-> v]

\* replace the last element of a non-empty list
SetLast(seq, v) == [seq EXCEPT ![Len(seq)] = v]
Last(seq) == seq[Len(seq)]

\* chatCompletionHandler.pre_request / _pre_json.  The dict display reads
\* messages[-1]["role"] before it runs the policies.
chatCompletionHandler_pre_request(json_content, input_policies, tape) ==
    IF \/ ~Has(json_content, "messages")
       \/ Len(json_content["messages"]) = 0
       \/ ~Has(Last(json_content["messages"]), "content")
       \/ ~Has(Last(json_content["messages"]), "role")
    THEN \* TypeError / IndexError / KeyError
         [json |-> json_content, calls |-> <<>>, raised |-> TRUE]
    ELSE LET messages == json_content["messages"]
             original_message == Last(messages)["content"]
             run == run_input_policies_messages(
                        original_message, <<>>, input_policies, tape)
         IN  IF run.raised
             THEN [json |-> json_content, calls |-> run.calls, raised |-> TRUE]
             ELSE [json |-> With(json_content, "messages",
                                 SetLast(messages,
                                         [role |-> Last(messages)["role"],
                                          content |-> run.text])),
                   calls |-> run.calls, raised |-> FALSE]

\* responsesHandler.pre_request
responsesHandler_pre_request(json_content, input_policies, tape) ==
    LET input == IF Has(json_content, "input") THEN json_content["input"]
                 ELSE None
        run == run_input_policies_messages(input, <<>>, input_policies, tape)
    IN  [json |-> With(json_content, "input", run.text),
         calls |-> run.calls, raised |-> run.raised]

\* a no-op handler that runs the input policies on the "input" field
doNothingHandler_pre_request_running(json_content, input_policies, tape) ==
    responsesHandler_pre_request(json_content, input_policies, tape)

\* doNothingHandler.pre_request: kwargs["json"] is still the popped dict
doNothingHandler_pre_request(json_content, input_policies, tape) ==
    [json |-> json_content, calls |-> <<>>, raised |-> FALSE]

\* a dispatch that swallows what pre_request raises
pre_request_swallowing(handler, json_content, input_policies, tape) ==
    LET pre == IF handler = "chatCompletionHandler"
               THEN chatCompletionHandler_pre_request(
                        json_content, input_policies, tape)
               ELSE IF handler = "responsesHandler"
               THEN responsesHandler_pre_request(
                        json_content, input_policies, tape)
               ELSE doNothingHandler_pre_request(
                        json_content, input_policies, tape)
    IN  [pre EXCEPT !.raised = FALSE]

pre_request(handler, json_content, input_policies, tape) ==
    IF handler = "chatCompletionHandler"
    THEN chatCompletionHandler_pre_request(json_content, input_policies, tape)
    ELSE IF handler = "responsesHandler"
    THEN responsesHandler_pre_request(json_content, input_policies, tape)
    ELSE doNothingHandler_pre_request(json_content, input_policies, tape)

\* post_request: the question attached to the request as request.kwargs;
\* [attached, question, raised]
NoQuestion == [attached |-> FALSE, question |-> None, raised |-> FALSE]

chatCompletionHandler_post_request(json) ==
    IF \/ ~Has(json, "messages")
       \/ Len(json["messages"]) = 0
       \/ ~Has(Last(json["messages"]), "content")
    THEN [attached |-> FALSE, question |-> None, raised |-> TRUE]
    ELSE [attached |-> TRUE, question |-> Last(json["messages"])["content"],
          raised |-> FALSE]

responsesHandler_post_request(json) ==
    IF ~Has(json, "input")
    THEN [attached |-> FALSE, question |-> None, raised |-> TRUE]
    ELSE [attached |-> TRUE, question |-> json["input"], raised |-> FALSE]

doNothingHandler_post_request(json) == NoQuestion

post_request(handler, json) ==
    IF handler = "chatCompletionHandler"
    THEN chatCompletionHandler_post_request(json)
    ELSE IF handler = "responsesHandler"
    THEN responsesHandler_post_request(json)
    ELSE doNothingHandler_post_request(json)

(***************************************************************************)
(* openai.py: OpenAI.build_request_decorator.wrapper.                      *)
(* The result is the request object as the SDK gets it (or the error):     *)
(*   built            the inner build_request was called                   *)
(*   json             the body handed to the inner build_request           *)
(*   input_policies, output_policies   the lists stamped on the request    *)
(*   attached, question   request.kwargs set by post_request               *)
(*   hooks            the hooks that ran, in order                         *)
(*   calls            the run_layer calls made                             *)
(***************************************************************************)
\* kwargs.get("json") of a request built without a JSON body
NoJson == [absent |-> TRUE]

\* json_content.pop(key, None) or default: a list is falsy when empty
pop_or_default(json_content, key, default) ==
    IF Has(json_content, key) /\ json_content[key] # <<>>
    THEN json_content[key] ELSE default

\* a wrapper that pops the input override only
pop_overrides_keeping_output(json_content) ==
    Without(json_content, {"input_policies"})

\* the dict after the two pops
pop_overrides(json_content) == Without(json_content, OverrideKeys)

\* json_content.get("stream", False), as a truth value
is_stream(json_content) ==
    Has(json_content, "stream") /\ json_content["stream"] = TRUE

\* a wrapper that calls post_request before the inner request builder
build_request_wrapper_post_first(cl, path, json_in, tape) ==
    LET input_policies ==
            pop_or_default(json_in, "input_policies", cl.global_input_policies)
        output_policies ==
            pop_or_default(json_in, "output_policies", cl.global_output_policies)
        json_content == pop_overrides(json_in)
        handler == get_handler(path)
        intercept == handler # NoHandler /\ ~is_stream(json_content)
        pre == IF intercept
               THEN pre_request(handler, json_content, input_policies, tape)
               ELSE [json |-> json_content, calls |-> <<>>, raised |-> FALSE]
        post == IF handler # NoHandler /\ ~pre.raised
                THEN post_request(handler, pre.json) ELSE NoQuestion
    IN  [path |-> path, json_in |-> json_in, handler |-> handler,
         stream |-> is_stream(json_content),
         raised |-> pre.raised \/ post.raised,
         built |-> ~pre.raised,
         json |-> pre.json,
         input_policies |-> input_policies,
         output_policies |-> output_policies,
         stamped |-> ~pre.raised,
         attached |-> post.attached, question |-> post.question,
         hooks |-> (IF intercept THEN <<"pre_request">> ELSE <<>>)
                   \o (IF handler # NoHandler /\ ~pre.raised
                       THEN <<"post_request">> ELSE <<>>)
                   \o (IF pre.raised THEN <<>> ELSE <<"build_request">>),
         calls |-> pre.calls]

\* OpenAI.build_request_decorator.wrapper: the hooks field lists, in the
\* order of the calls, the handler hooks and the inner builder it called
build_request_wrapper(cl, path, json_in, tape) ==
    IF json_in = NoJson
    THEN \* None has no pop: AttributeError before anything else is done
         [path |-> path, json_in |-> json_in, handler |-> NoHandler,
          stream |-> FALSE, raised |-> TRUE, built |-> FALSE,
          json |-> json_in, input_policies |-> <<>>, output_policies |-> <<>>,
          stamped |-> FALSE, attached |-> FALSE, question |-> None,
          hooks |-> <<>>, calls |-> <<>>]
    ELSE
    LET input_policies ==
            pop_or_default(json_in, "input_policies", cl.global_input_policies)
        output_policies ==
            pop_or_default(json_in, "output_policies", cl.global_output_policies)
        json_content == pop_overrides(json_in)
        handler == get_handler(path)
        intercept == handler # NoHandler /\ ~is_stream(json_content)
        pre == IF intercept
               THEN pre_request(handler, json_content, input_policies, tape)
               ELSE [json |-> json_content, calls |-> <<>>, raised |-> FALSE]
        post == IF handler # NoHandler /\ ~pre.raised
                THEN post_request(handler, pre.json) ELSE NoQuestion
    IN  [path |-> path, json_in |-> json_in, handler |-> handler,
         stream |-> is_stream(json_content),
         raised |-> pre.raised \/ post.raised,
         built |-> ~pre.raised,
         json |-> pre.json,
         input_policies |-> input_policies,
         output_policies |-> output_policies,
         stamped |-> ~pre.raised,
         attached |-> post.attached, question |-> post.question,
         hooks |-> (IF intercept THEN <<"pre_request">> ELSE <<>>)
                   \o (IF pre.raised THEN <<>> ELSE <<"build_request">>)
                   \o (IF handler # NoHandler /\ ~pre.raised
                       THEN <<"post_request">> ELSE <<>>),
         calls |-> pre.calls]

(***************************************************************************)
(* openai.py: OpenAI.run_output_policies (the response hook) and the       *)
(* handlers' post_response.  A post_response result is [json, calls,       *)
(* raised]: the parsed body as it is after the hook, the run_layer calls   *)
(* made, and whether one raised.                                           *)
(***************************************************************************)
\* a response body that is not JSON: response.json() raises on it
NotJson == [kind |-> "not json"]
\* a response body that parses to a JSON array, not an object
JsonList(items) == [kind |-> "list", items |-> items]
IsJsonList(json_output) ==
    Has(json_output, "kind") /\ json_output["kind"] = "list"

\* an output loop that feeds each policy the previous policy's result
RECURSIVE run_output_policies_chained(_, _, _, _, _)
run_output_policies_chained(calls, content, question, output_policies, tape) ==
    IF calls # <<>> /\ calls[Len(calls)].raised
    THEN [calls |-> calls, raised |-> TRUE]
    ELSE IF Len(calls) >= Len(output_policies)
    THEN [calls |-> calls, raised |-> FALSE]
    ELSE run_output_policies_chained(
             Append(calls,
                    run_layer(output_policies[Len(calls) + 1],
                              IF calls = <<>> THEN content
                              ELSE py_or(calls[Len(calls)].processed_data,
                                         calls[Len(calls)].input_data),
                              question, tape[Len(calls) + 1])),
             content, question, output_policies, tape)

\* the output-policy loop of post_response: one run_layer per policy on the
\* same content, with request.kwargs (the question) as context
RECURSIVE run_output_policies_from(_, _, _, _, _)
run_output_policies_from(calls, content, question, output_policies, tape) ==
    IF calls # <<>> /\ calls[Len(calls)].raised
    THEN [calls |-> calls, raised |-> TRUE]
    ELSE IF Len(calls) >= Len(output_policies)
    THEN [calls |-> calls, raised |-> FALSE]
    ELSE run_output_policies_from(
             Append(calls,
                    run_layer(output_policies[Len(calls) + 1], content,
                              question, tape[Len(calls) + 1])),
             content, question, output_policies, tape)

\* a post_response that writes the last processed_data into the answer
chatCompletionHandler_post_response_rewriting(json_output, question, output_policies, tape) ==
    IF \/ IsJsonList(json_output)
       \/ ~Has(json_output, "choices")
       \/ Len(json_output["choices"]) = 0
       \/ ~Has(json_output["choices"][1], "message")
    THEN [json |-> json_output, calls |-> <<>>, raised |-> TRUE]
    ELSE
    LET content == json_output["choices"][1]["message"]["content"]
        run == IF content = None \/ content = ""
               THEN [calls |-> <<>>, raised |-> FALSE]
               ELSE run_output_policies_from(
                        <<>>, content, question, output_policies, tape)
        rewritten == IF run.calls = <<>> THEN content
                     ELSE py_or(Last(run.calls).processed_data, content)
    IN  [json |-> [json_output EXCEPT
                      !["choices"][1]["message"]["content"] = rewritten],
         calls |-> run.calls, raised |-> run.raised]

\* chatCompletionHandler.post_response
chatCompletionHandler_post_response(json_output, question, output_policies, tape) ==
    IF \/ IsJsonList(json_output)
       \/ ~Has(json_output, "choices")
       \/ Len(json_output["choices"]) = 0
       \/ ~Has(json_output["choices"][1], "message")
    THEN \* TypeError / KeyError / IndexError
         [json |-> json_output, calls |-> <<>>, raised |-> TRUE]
    ELSE LET message == json_output["choices"][1]["message"]
             content == IF Has(message, "content") THEN message["content"]
                        ELSE ""
         IN  IF content = None \/ content = ""
             THEN [json |-> json_output, calls |-> <<>>, raised |-> FALSE]
             ELSE LET run == run_output_policies_from(
                                 <<>>, content, question, output_policies, tape)
                  IN  [json |-> json_output, calls |-> run.calls,
                       raised |-> run.raised]

\* responsesHandler.post_response: pass
responsesHandler_post_response(json_output, question, output_policies, tape) ==
    [json |-> json_output, calls |-> <<>>, raised |-> FALSE]

\* doNothingHandler.post_response: return
doNothingHandler_post_response(json_output, question, output_policies, tape) ==
    [json |-> json_output, calls |-> <<>>, raised |-> FALSE]

post_response(handler, json_output, question, output_policies, tape) ==
    IF handler = "chatCompletionHandler"
    THEN chatCompletionHandler_post_response(
             json_output, question, output_policies, tape)
    ELSE IF handler = "responsesHandler"
    THEN responsesHandler_post_response(
             json_output, question, output_policies, tape)
    ELSE doNothingHandler_post_response(
             json_output, question, output_policies, tape)

\* a response hook that takes the stamped list from the request the client
\* built last
stamped_output_policies_of_latest(request) ==
    IF flight.requests = <<>> THEN request.output_policies
    ELSE Last(flight.requests).request.output_policies

\* getattr(response._request, "output_policies", [])
stamped_output_policies(request) ==
    IF request.stamped THEN request.output_policies ELSE <<>>

\* a correlation that hands post_response the caller's text as it was
\* before the input policies
request_question_of_caller(request) ==
    IF ~request.attached THEN None
    ELSE IF request.handler = "chatCompletionHandler"
    THEN request.json_in["messages"][Len(request.json_in["messages"])]["content"]
    ELSE IF request.handler = "responsesHandler" THEN request.json_in["input"]
    ELSE IF request.json_in["messages"][Len(request.json_in["messages"])]["content"].kind = "str"
    THEN request.json_in["messages"][Len(request.json_in["messages"])]["content"].text
    ELSE request.question

\* **getattr(response._request, "kwargs", {}): the question, or no context
request_question(request) ==
    IF request.attached THEN request.question ELSE None

\* OpenAI.run_output_policies.  response = [status_code, content_type, json]
\* as received; the result adds what the caller gets back.
run_output_policies(request, response, tape) ==
    IF response.status_code # 200
       \/ response.content_type # "application/json"
    THEN [json |-> response.json, calls |-> <<>>, raised |-> FALSE,
          hooks |-> <<>>]
    ELSE IF response.json = NotJson
    THEN \* response.json() raises, before the handler is resolved
         [json |-> response.json, calls |-> <<>>, raised |-> TRUE,
          hooks |-> <<>>]
    ELSE LET handler == get_handler(request.path)
         IN  IF handler = NoHandler
             THEN [json |-> response.json, calls |-> <<>>, raised |-> FALSE,
                   hooks |-> <<>>]
             ELSE LET post == post_response(
                                  handler, response.json,
                                  request_question(request),
                                  stamped_output_policies(request), tape)
                  IN  [json |-> post.json, calls |-> post.calls,
                       raised |-> post.raised, hooks |-> <<"post_response">>]

(***************************************************************************)
(* anthropic.py: messagesHandler, the request wrapper and the hook.        *)
(* A message's content is Str(text) or Blocks(list of block dicts).        *)
(***************************************************************************)
\* Anthropic._get_handler
anthropic_get_handler(path) ==
    IF path = "/v1/messages" THEN "messagesHandler" ELSE NoHandler

IsTextBlock(block) == Has(block, "type") /\ block["type"] = "text"

\* " ".join(b.get("text", "") for b in blocks if b is a text block)
RECURSIVE JoinTextBlocks(_, _)
JoinTextBlocks(blocks, i) ==
    IF i > Len(blocks) THEN [n |-> 0, text |-> ""]
    ELSE LET rest == JoinTextBlocks(blocks, i + 1)
         IN  IF ~IsTextBlock(blocks[i]) THEN rest
             ELSE LET t == IF Has(blocks[i], "text") THEN blocks[i]["text"]
                           ELSE ""
                  IN  [n |-> rest.n + 1,
                       text |-> IF rest.n = 0 THEN t ELSE t \o " " \o rest.text]

join_text_blocks(blocks) == JoinTextBlocks(blocks, 1).text

\* a loop that runs the chain on the text blocks joined into one text
RECURSIVE messagesHandler_run_blocks_joined(_, _, _, _)
messagesHandler_run_blocks_joined(st, input_policies, tape, i) ==
    IF i > Len(st.blocks) \/ st.raised THEN st
    ELSE IF ~IsTextBlock(st.blocks[i])
    THEN messagesHandler_run_blocks_joined(st, input_policies, tape, i + 1)
    ELSE IF ~Has(st.blocks[i], "text")
    THEN [st EXCEPT !.raised = TRUE]
    ELSE LET run == anthropic_run_input_policies_messages(
                        join_text_blocks(st.blocks), st.calls,
                        input_policies, tape)
             next == [blocks |-> IF run.raised THEN st.blocks
                                 ELSE [st.blocks EXCEPT
                                          ![i] = With(@, "text", run.text)],
                      calls |-> run.calls, raised |-> run.raised]
         IN  messagesHandler_run_blocks_joined(next, input_policies, tape, i + 1)

\* the loop over the blocks of a content list: st = [blocks, calls, raised]
RECURSIVE messagesHandler_run_blocks(_, _, _, _)
messagesHandler_run_blocks(st, input_policies, tape, i) ==
    IF i > Len(st.blocks) \/ st.raised THEN st
    ELSE IF ~IsTextBlock(st.blocks[i])
    THEN messagesHandler_run_blocks(st, input_policies, tape, i + 1)
    ELSE IF ~Has(st.blocks[i], "text")
    THEN [st EXCEPT !.raised = TRUE]   \* KeyError
    ELSE LET run == anthropic_run_input_policies_messages(
                        st.blocks[i]["text"], st.calls, input_policies, tape)
             next == [blocks |-> IF run.raised THEN st.blocks
                                 ELSE [st.blocks EXCEPT
                                          ![i] = With(@, "text", run.text)],
                      calls |-> run.calls, raised |-> run.raised]
         IN  messagesHandler_run_blocks(next, input_policies, tape, i + 1)

\* messagesHandler.pre_request
messagesHandler_pre_request(json_content, input_policies, tape) ==
    LET messages == IF Has(json_content, "messages")
                    THEN json_content["messages"] ELSE <<>>
    IN  IF messages = <<>> \/ input_policies = <<>>
        THEN [json |-> json_content, calls |-> <<>>, raised |-> FALSE]
        ELSE LET last_message == Last(messages)
                 content == IF Has(last_message, "content")
                            THEN last_message["content"] ELSE Str("")
             IN  IF content.kind = "str"
                 THEN LET run == anthropic_run_input_policies_messages(
                                     content.text, <<>>, input_policies, tape)
                      IN  [json |-> IF run.raised THEN json_content
                                    ELSE With(json_content, "messages",
                                              SetLast(messages,
                                                  With(last_message, "content",
                                                       Str(run.text)))),
                           calls |-> run.calls, raised |-> run.raised]
                 ELSE LET run == messagesHandler_run_blocks(
                                     [blocks |-> content.blocks, calls |-> <<>>,
                                      raised |-> FALSE],
                                     input_policies, tape, 1)
                      IN  [json |-> IF run.raised THEN json_content
                                    ELSE With(json_content, "messages",
                                              SetLast(messages,
                                                  With(last_message, "content",
                                                       Blocks(run.blocks)))),
                           calls |-> run.calls, raised |-> run.raised]

\* messagesHandler.post_request
messagesHandler_post_request(json) ==
    LET messages == IF Has(json, "messages") THEN json["messages"] ELSE <<>>
        content == IF messages # <<>> /\ Has(Last(messages), "content")
                   THEN Last(messages)["content"] ELSE Str("")
    IN  [attached |-> TRUE,
         question |-> IF content.kind = "str" THEN content.text
                      ELSE join_text_blocks(content.blocks),
         raised |-> FALSE]

\* messagesHandler.post_response
messagesHandler_post_response(json_output, question, output_policies, tape) ==
    LET content_blocks == IF Has(json_output, "content")
                          THEN json_output["content"] ELSE <<>>
        text_content == join_text_blocks(content_blocks)
    IN  IF IsJsonList(json_output)
        THEN \* AttributeError: a list has no get
             [json |-> json_output, calls |-> <<>>, raised |-> TRUE]
        ELSE IF text_content = ""
        THEN [json |-> json_output, calls |-> <<>>, raised |-> FALSE]
        ELSE LET run == run_output_policies_from(
                            <<>>, text_content, question, output_policies, tape)
             IN  [json |-> json_output, calls |-> run.calls,
                  raised |-> run.raised]

\* Anthropic.build_request_decorator.wrapper
anthropic_build_request_wrapper(cl, path, json_in, tape) ==
    IF json_in = NoJson \/ DOMAIN json_in = {}
    THEN \* `if not json_content: return func(*args, **kwargs)`
         [path |-> path, json_in |-> json_in,
          handler |-> anthropic_get_handler(path), stream |-> FALSE,
          raised |-> FALSE, built |-> TRUE, json |-> json_in,
          input_policies |-> <<>>, output_policies |-> <<>>,
          stamped |-> FALSE, attached |-> FALSE, question |-> None,
          hooks |-> <<"build_request">>, calls |-> <<>>]
    ELSE
    LET input_policies ==
            pop_or_default(json_in, "input_policies", cl.global_input_policies)
        output_policies ==
            pop_or_default(json_in, "output_policies", cl.global_output_policies)
        json_content == pop_overrides(json_in)
        handler == anthropic_get_handler(path)
        intercept == handler # NoHandler /\ ~is_stream(json_content)
        pre == IF intercept
               THEN messagesHandler_pre_request(json_content, input_policies, tape)
               ELSE [json |-> json_content, calls |-> <<>>, raised |-> FALSE]
        post == IF handler # NoHandler /\ ~pre.raised
                THEN messagesHandler_post_request(pre.json) ELSE NoQuestion
    IN  [path |-> path, json_in |-> json_in, handler |-> handler,
         stream |-> is_stream(json_content),
         raised |-> pre.raised \/ post.raised,
         built |-> ~pre.raised,
         json |-> pre.json,
         input_policies |-> input_policies,
         output_policies |-> output_policies,
         stamped |-> ~pre.raised,
         attached |-> post.attached, question |-> post.question,
         hooks |-> (IF intercept THEN <<"pre_request">> ELSE <<>>)
                   \o (IF pre.raised THEN <<>> ELSE <<"build_request">>)
                   \o (IF handler # NoHandler /\ ~pre.raised
                       THEN <<"post_request">> ELSE <<>>),
         calls |-> pre.calls]

\* Anthropic.run_output_policies
anthropic_run_output_policies(request, response, tape) ==
    IF response.status_code # 200
       \/ response.content_type # "application/json"
    THEN [json |-> response.json, calls |-> <<>>, raised |-> FALSE,
          hooks |-> <<>>]
    ELSE IF response.json = NotJson
    THEN \* response.json() raises, before the handler is resolved
         [json |-> response.json, calls |-> <<>>, raised |-> TRUE,
          hooks |-> <<>>]
    ELSE LET handler == anthropic_get_handler(request.path)
         IN  IF handler = NoHandler
             THEN [json |-> response.json, calls |-> <<>>, raised |-> FALSE,
                   hooks |-> <<>>]
             ELSE LET post == messagesHandler_post_response(
                                  response.json, request_question(request),
                                  stamped_output_policies(request), tape)
                  IN  [json |-> post.json, calls |-> post.calls,
                       raised |-> post.raised, hooks |-> <<"post_response">>]

(***************************************************************************)
(* google.py: Client._run_input_policies, _extract_question and            *)
(* _wrapped_generate_content.                                              *)
(* contents is NoContents, Str(text) or Items(list); an item of the list   *)
(* is Str(text) or Dict(d) with d a dict that may hold "parts", a list of  *)
(* part dicts.                                                             *)
(***************************************************************************)
NoContents == [kind |-> "none"]
Items(items) == [kind |-> "list", items |-> items]
Dict(d) == [kind |-> "dict", dict |-> d]

\* the loop over the policies for contents: str
RECURSIVE google_run_str_from(_, _, _, _)
google_run_str_from(st, input_policies, tape, i) ==
    IF i > Len(input_policies) \/ st.raised THEN st
    ELSE google_run_str_from(
             carry(st, run_layer(input_policies[i], st.text, None,
                                 tape[Len(st.calls) + 1])),
             input_policies, tape, i + 1)

\* the loop over the policies for one part: every policy is run on `text`,
\* the part's text before the loop, and part["text"] is assigned each time.
\* st = [part_text, calls, raised]
\* one turn of the loop: part["text"] = res.processed_data or text
google_assign_part(st, text, res) ==
    [part_text |-> IF res.raised THEN st.part_text
                   ELSE py_or(res.processed_data, text),
     calls  |-> Append(st.calls, res),
     raised |-> res.raised]

RECURSIVE google_run_part_from(_, _, _, _, _)
google_run_part_from(st, text, input_policies, tape, i) ==
    IF i > Len(input_policies) \/ st.raised THEN st
    ELSE google_run_part_from(
             google_assign_part(st, text,
                 run_layer(input_policies[i], text, None,
                           tape[Len(st.calls) + 1])),
             text, input_policies, tape, i + 1)

\* the loop over the parts of the last item: st = [parts, calls, raised]
RECURSIVE google_run_parts(_, _, _, _)
google_run_parts(st, input_policies, tape, i) ==
    IF i > Len(st.parts) \/ st.raised THEN st
    ELSE IF ~Has(st.parts[i], "text")
    THEN google_run_parts(st, input_policies, tape, i + 1)
    ELSE LET run == google_run_part_from(
                        [part_text |-> st.parts[i]["text"], calls |-> st.calls,
                         raised |-> FALSE],
                        st.parts[i]["text"], input_policies, tape, 1)
             next == [parts |-> [st.parts EXCEPT
                                    ![i] = With(@, "text", run.part_text)],
                      calls |-> run.calls, raised |-> run.raised]
         IN  google_run_parts(next, input_policies, tape, i + 1)

\* Client._run_input_policies: [contents, calls, raised]
google_run_input_policies(contents, input_policies, tape) ==
    IF contents.kind = "str"
    THEN LET run == google_run_str_from(
                        [text |-> contents.text, calls |-> <<>>,
                         raised |-> FALSE], input_policies, tape, 1)
         IN  [contents |-> Str(run.text), calls |-> run.calls,
              raised |-> run.raised]
    ELSE IF contents.kind = "list" /\ contents.items # <<>>
            /\ Last(contents.items).kind = "dict"
    THEN LET last == Last(contents.items).dict
             parts == IF Has(last, "parts") THEN last["parts"] ELSE <<>>
             run == google_run_parts(
                        [parts |-> parts, calls |-> <<>>, raised |-> FALSE],
                        input_policies, tape, 1)
         IN  [contents |-> IF Has(last, "parts")
                           THEN Items(SetLast(contents.items,
                                    Dict(With(last, "parts", run.parts))))
                           ELSE contents,
              calls |-> run.calls, raised |-> run.raised]
    ELSE [contents |-> contents, calls |-> <<>>, raised |-> FALSE]

\* " ".join(p.get("text", "") for p in parts if "text" in p)
RECURSIVE JoinParts(_, _)
JoinParts(parts, i) ==
    IF i > Len(parts) THEN [n |-> 0, text |-> ""]
    ELSE LET rest == JoinParts(parts, i + 1)
         IN  IF ~Has(parts[i], "text") THEN rest
             ELSE [n |-> rest.n + 1,
                   text |-> IF rest.n = 0 THEN parts[i]["text"]
                            ELSE parts[i]["text"] \o " " \o rest.text]

\* Client._extract_question
google_extract_question(contents) ==
    IF contents.kind = "str" THEN contents.text
    ELSE IF contents.kind = "list" /\ contents.items # <<>>
    THEN LET last == Last(contents.items)
         IN  IF last.kind = "str" THEN last.text
             ELSE JoinParts(IF Has(last.dict, "parts") THEN last.dict["parts"]
                            ELSE <<>>, 1).text
    ELSE "<str(contents)>"

\* `if ... and contents`: a non-empty str or a non-empty list
google_truthy(contents) ==
    \/ contents.kind = "str" /\ contents.text # ""
    \/ contents.kind = "list" /\ contents.items # <<>>

\* Client._wrapped_generate_content.  response = [text]: the provider's
\* response (text is None when response.text raises or is None).
\* The result is [request, response] in the shape of the other clients.
wrapped_generate_content(cl, contents, tape_in, response, tape_out) ==
    LET pre == IF cl.global_input_policies # <<>> /\ google_truthy(contents)
               THEN google_run_input_policies(
                        contents, cl.global_input_policies, tape_in)
               ELSE [contents |-> contents, calls |-> <<>>, raised |-> FALSE]
        question == google_extract_question(pre.contents)
        response_text == response.text
        post == IF ~pre.raised /\ cl.global_output_policies # <<>>
                   /\ response_text # None /\ response_text # ""
                THEN run_output_policies_from(
                         <<>>, response_text, question,
                         cl.global_output_policies, tape_out)
                ELSE [calls |-> <<>>, raised |-> FALSE]
    IN  [request |->
            [path |-> "generate_content", json_in |-> contents,
             handler |-> "generate_content", stream |-> FALSE,
             raised |-> pre.raised, built |-> ~pre.raised,
             json |-> pre.contents,
             input_policies |-> cl.global_input_policies,
             output_policies |-> cl.global_output_policies,
             stamped |-> FALSE, attached |-> ~pre.raised,
             question |-> IF pre.raised THEN None ELSE question,
             hooks |-> <<>>, calls |-> pre.calls],
         response |->
            [received |-> response, json |-> response,
             returned |-> ~pre.raised /\ ~post.raised,
             calls |-> post.calls, raised |-> post.raised, hooks |-> <<>>]]

(***************************************************************************)
(* The inputs of the model.                                                *)
(***************************************************************************)
\* client-wide defaults and per-request overrides: one list varies over
\* all of PolicyLists while the other is absent, or both are short
PolicyPairs ==
    { [input |-> l, output |-> <<>>] : l \in PolicyLists }
    \cup { [input |-> <<>>, output |-> l] : l \in PolicyLists }
    \cup { [input |-> <<"anonymize_pii">>,
            output |-> <<"reject_irrelevant_answer">>] }

DefaultPairs ==
    { [input |-> <<>>, output |-> <<>>],
      [input |-> <<"anonymize_pii">>,
       output |-> <<"reject_irrelevant_answer">>] }

Clients ==
    { [provider |-> p, global_input_policies |-> d.input,
       global_output_policies |-> d.output] :
        p \in {"openai", "anthropic"}, d \in DefaultPairs }
    \cup
    { [provider |-> "google", global_input_policies |-> d.input,
       global_output_policies |-> d.output] : d \in PolicyPairs }

\* the override keys a request body may carry
Overrides ==
    { <<>> }
    \cup { [input_policies |-> l] : l \in PolicyLists }
    \cup { [output_policies |-> l] : l \in PolicyLists }
    \cup { [input_policies |-> <<"reject_irrelevant_answer">>,
            output_policies |-> <<"anonymize_pii">>],
           [input_policies |-> <<>>, output_policies |-> <<>>] }

StreamFlags == { <<>>, [stream |-> TRUE], [stream |-> FALSE] }

\* the earlier turns of a conversation
Turn(i) == [role |-> IF i % 2 = 1 THEN "system" ELSE "user",
            content |-> "h"]
History(n) == [i \in 1..n |-> Turn(i)]
Histories == { History(n) : n \in 0..MaxHistory }

UserTexts == {"t"}

\* OpenAI requests: a path and the body the SDK builds for it
\* a last message with a further key, and one that is not the user's
NamedMessage(t) == [role |-> "user", content |-> t, name |-> "n"]
AssistantMessage(t) == [role |-> "assistant", content |-> t]

ChatBodies ==
    { [model |-> "gpt", messages |-> h \o <<[role |-> "user", content |-> t]>>] :
        h \in Histories, t \in UserTexts }
    \cup { [model |-> "gpt", messages |-> <<NamedMessage(t)>>] : t \in UserTexts }
    \cup { [model |-> "gpt",
            messages |-> <<[role |-> "user", content |-> "h"],
                           AssistantMessage(t)>>] : t \in UserTexts }
InputBodies == { [model |-> "gpt", input |-> t] : t \in UserTexts }

OpenAIRequests ==
    { [path |-> "/v1/chat/completions", json |-> b] : b \in ChatBodies }
    \cup { [path |-> "/v1/responses", json |-> b] : b \in InputBodies }
    \cup { [path |-> "/v1/audio/speech", json |-> b @@ [voice |-> "alloy"]] :
             b \in InputBodies }
    \cup { [path |-> "/v1/responses/compact", json |-> b] : b \in InputBodies }
    \cup { [path |-> "/v1/embeddings", json |-> b] : b \in InputBodies }

\* Anthropic requests
TextBlock(t) == [type |-> "text", text |-> t]
ImageBlock == [type |-> "image", source |-> "img"]
AnthropicTurn(i) == [role |-> IF i % 2 = 1 THEN "user" ELSE "assistant",
                     content |-> Str("h")]
AnthropicHistories ==
    { [i \in 1..n |-> AnthropicTurn(i)] : n \in 0..MaxHistory }
\* a content list with two text blocks around an image block
TwoTextBlocks(t) == Blocks(<<TextBlock(t), ImageBlock, TextBlock("u")>>)
AnthropicContents ==
    { Str(t) : t \in UserTexts }
    \cup { Blocks(<<TextBlock(t), ImageBlock>>) : t \in UserTexts }
    \cup { TwoTextBlocks(t) : t \in UserTexts }
MessagesBodies ==
    { [model |-> "claude", max_tokens |-> 16,
       messages |-> h \o <<[role |-> "user", content |-> c]>>] :
        h \in AnthropicHistories,
        c \in AnthropicContents \ { TwoTextBlocks(t) : t \in UserTexts } }
    \cup { [model |-> "claude", max_tokens |-> 16,
            messages |-> <<[role |-> "user", content |-> TwoTextBlocks(t)]>>] :
            t \in UserTexts }
    \cup { [model |-> "claude", max_tokens |-> 16,
            messages |-> <<[role |-> "user", content |-> Str("h")],
                           [role |-> "assistant", content |-> Str(t)]>>] :
            t \in UserTexts }
AnthropicRequests ==
    { [path |-> "/v1/messages", json |-> b] : b \in MessagesBodies }
    \cup { [path |-> "/v1/messages/count_tokens", json |-> b] :
             b \in MessagesBodies }
    \cup { [path |-> "/v1/messages", json |-> <<>>] }

\* the text units of a body that the input policies can be run on
TextUnits(request) ==
    IF Has(request.json, "messages")
       /\ request.json["messages"] # <<>>
       /\ Has(Last(request.json["messages"]), "content")
       /\ Last(request.json["messages"])["content"] \in AnthropicContents
       /\ Last(request.json["messages"])["content"].kind = "blocks"
    THEN Cardinality({ i \in DOMAIN Last(request.json["messages"])["content"].blocks :
                         IsTextBlock(Last(request.json["messages"])["content"].blocks[i]) })
    ELSE 1

\* responses of the provider to the OpenAI and Anthropic SDKs
ChatAnswer(a) ==
    [id |-> "c1",
     choices |-> <<[index |-> 0,
                    message |-> [role |-> "assistant", content |-> a]]>>]
MessagesAnswer(a) ==
    [id |-> "m1", role |-> "assistant",
     content |-> IF a = "" THEN <<>> ELSE <<TextBlock(a)>>]
Answers == {"", "ans"}
\* status and Content-Type of a response: a JSON answer, a provider error
\* and an event stream
ResponseKinds ==
    { [status_code |-> 200, content_type |-> "application/json"],
      [status_code |-> 200, content_type |-> "application/json; charset=utf-8"],
      [status_code |-> 500, content_type |-> "application/json"],
      [status_code |-> 200, content_type |-> "text/event-stream"] }

ResponsesAnswer(a) ==
    [id |-> "r1",
     output |-> <<[type |-> "message", role |-> "assistant",
                   content |-> <<[type |-> "output_text", text |-> a]>>]>>]

\* the body the provider answers with on a path
OpenAIAnswer(path, a) ==
    IF path = "/v1/chat/completions" THEN ChatAnswer(a) ELSE ResponsesAnswer(a)

\* malformed bodies of a 200 JSON response: not JSON, a JSON array, and
\* objects without the fields post_response reads
MalformedBodies(path) ==
    { NotJson, JsonList(<<>>) }
    \cup (IF path = "/v1/chat/completions"
          THEN { [id |-> "c1"],
                 [id |-> "c1", choices |-> <<>>],
                 [id |-> "c1", choices |-> <<[index |-> 0]>>] }
          ELSE IF path = "/v1/messages" THEN { [id |-> "m1"] }
          ELSE {})

Malformed(path) ==
    { [status_code |-> 200, content_type |-> "application/json", json |-> b] :
        b \in MalformedBodies(path) }

OpenAIResponses(path) ==
    { [status_code |-> k.status_code, content_type |-> k.content_type,
       json |-> OpenAIAnswer(path, a)] : k \in ResponseKinds, a \in Answers }
    \cup Malformed(path)
AnthropicResponses ==
    { [status_code |-> k.status_code, content_type |-> k.content_type,
       json |-> MessagesAnswer(a)] : k \in ResponseKinds, a \in Answers }
    \cup Malformed("/v1/messages")

\* Google contents and responses
GoogleHistories ==
    { [i \in 1..n |-> Dict([role |-> "user", parts |-> <<[text |-> "h"]>>])] :
        n \in 0..MaxHistory }
GoogleContents ==
    { NoContents }
    \cup { Str(t) : t \in UserTexts }
    \cup { Items(h \o <<Dict([role |-> "user", parts |-> <<[text |-> t]>>])>>) :
             h \in GoogleHistories, t \in UserTexts }
    \cup { Items(<<Dict([role |-> "user",
                         parts |-> <<[text |-> t], [inline_data |-> "img"]>>])>>) :
             t \in UserTexts }
    \cup { Items(<<Str(t)>>) : t \in UserTexts }
GoogleResponses == { [text |-> a] : a \in Answers \cup {None} }

(***************************************************************************)
(* The state machine.                                                      *)
(*   client   the constructed client: provider and the client-wide lists   *)
(*   phase    "idle", "sent" (request built, response awaited), "raised"   *)
(*            (the wrapper raised to the caller), "done" (the response     *)
(*            hook has run)                                                *)
(*   req      the result of the request wrapper for the current request    *)
(*   resp     the received response and the result of the response hook    *)
(*   flight   the requests of one client that are in flight together, and  *)
(*            the number of handler instances constructed so far           *)
(*   trace    the spans started so far and the traced calls that own them  *)
(*   sdk      the process-wide SDK state: the OVERMIND_API_KEY variable,   *)
(*            the initialised flag, and the client constructions made      *)
(***************************************************************************)
NoRequest == [path |-> None]
NoResponse == [hooks |-> <<>>]
\* no request in flight and no handler constructed yet
NoFlight == [requests |-> <<>>, handlers |-> 0]
\* no span started and no traced call made yet
NoTrace == [spans |-> <<>>, calls |-> <<>>]
\* the process before any Overmind client is constructed: OVERMIND_API_KEY
\* unset, the SDK not initialised
NoSdk ==
    [env |-> None, initialized |-> FALSE, init_calls |-> 0,
     configured_by |-> <<>>, constructions |-> <<>>]

\* the HTTP client before the wrapped client is constructed around it
NoHttp == [configured |-> [request |-> <<>>, response |-> <<>>],
           event_hooks |-> [request |-> <<>>, response |-> <<>>],
           constructed |-> FALSE, builds |-> <<>>]
\* no pair of runs made yet
NoTwin == [runs |-> <<>>]
\* ingest_logs not called yet
NoIngest ==
    [suffix |-> None, mapping |-> <<>>, items |-> <<>>, next |-> 0,
     spans |-> <<>>, failed |-> <<>>, status |-> "idle", error |-> None]

Init ==
    /\ client \in Clients
    /\ phase = "idle"
    /\ req = NoRequest
    /\ resp = NoResponse
    /\ flight = NoFlight
    /\ trace = NoTrace
    /\ sdk = NoSdk
    /\ http = NoHttp
    /\ twin = NoTwin
    /\ ingest = NoIngest

\* the resolved input list of a request, as the wrapper resolves it
ResolvedInput(r) ==
    pop_or_default(r.json, "input_policies", client.global_input_policies)
ResolvedOutput(r) ==
    pop_or_default(r.json, "output_policies", client.global_output_policies)

\* the SDK builds a request through the wrapped build_request
OpenAIBuildRequest ==
    /\ client.provider = "openai"
    /\ phase = "idle"
    /\ \E r \in OpenAIRequests, o \in Overrides, f \in StreamFlags :
         LET body == r.json @@ o @@ f
         IN  \E tape \in Tapes(Runnable(ResolvedInput([json |-> body]))) :
               /\ req' = build_request_wrapper(client, r.path, body, tape)
               /\ phase' = IF req'.raised THEN "raised" ELSE "sent"
    /\ UNCHANGED <<client, resp, flight, trace, sdk, http, twin, ingest>>

AnthropicBuildRequest ==
    /\ client.provider = "anthropic"
    /\ phase = "idle"
    /\ \E r \in AnthropicRequests, o \in Overrides, f \in StreamFlags :
         LET body == IF DOMAIN r.json = {} THEN r.json ELSE r.json @@ o @@ f
         IN  \E tape \in Tapes(Runnable(ResolvedInput([json |-> body]))
                               * TextUnits(r)) :
               /\ req' = anthropic_build_request_wrapper(
                             client, r.path, body, tape)
               /\ phase' = IF req'.raised THEN "raised" ELSE "sent"
    /\ UNCHANGED <<client, resp, flight, trace, sdk, http, twin, ingest>>

\* the SDK receives the response and fires the response event hook
HookResult(response, hook) ==
    [received |-> response, json |-> hook.json,
     returned |-> ~hook.raised, calls |-> hook.calls,
     raised |-> hook.raised, hooks |-> hook.hooks]

OpenAIResponse ==
    /\ client.provider = "openai"
    /\ phase = "sent"
    /\ \E response \in OpenAIResponses(req.path) :
         \E tape \in Tapes(Runnable(stamped_output_policies(req))) :
            resp' = HookResult(response,
                               run_output_policies(req, response, tape))
    /\ phase' = "done"
    /\ UNCHANGED <<client, req, flight, trace, sdk, http, twin, ingest>>

AnthropicResponse ==
    /\ client.provider = "anthropic"
    /\ phase = "sent"
    /\ \E response \in AnthropicResponses :
         \E tape \in Tapes(Runnable(stamped_output_policies(req))) :
            resp' = HookResult(response,
                        anthropic_run_output_policies(req, response, tape))
    /\ phase' = "done"
    /\ UNCHANGED <<client, req, flight, trace, sdk, http, twin, ingest>>

\* a call of client.models.generate_content
GoogleUnits(contents) ==
    IF contents.kind = "list" /\ contents.items # <<>>
       /\ Last(contents.items).kind = "dict"
    THEN Len(Last(contents.items).dict["parts"])
    ELSE 1

GoogleGenerateContent ==
    /\ client.provider = "google"
    /\ phase = "idle"
    /\ \E contents \in GoogleContents, response \in GoogleResponses :
         \E tape_in \in Tapes(Runnable(client.global_input_policies)
                              * GoogleUnits(contents)),
            tape_out \in Tapes(Runnable(client.global_output_policies)) :
            LET out == wrapped_generate_content(
                           client, contents, tape_in, response, tape_out)
            IN  /\ req' = out.request
                /\ resp' = IF out.request.raised THEN NoResponse
                           ELSE out.response
                /\ phase' = IF out.request.raised \/ out.response.raised
                            THEN "raised" ELSE "done"
    /\ UNCHANGED <<client, flight, trace, sdk, http, twin, ingest>>

\* the caller goes on to its next request
NextRequest ==
    /\ phase \in {"sent", "raised", "done"}
    /\ phase' = "idle"
    /\ req' = NoRequest
    /\ resp' = NoResponse
    /\ UNCHANGED <<client, flight, trace, sdk, http, twin, ingest>>

Next ==
    \/ OpenAIBuildRequest
    \/ AnthropicBuildRequest
    \/ OpenAIResponse
    \/ AnthropicResponse
    \/ GoogleGenerateContent
    \/ NextRequest

Spec == Init /\ [][Next]_vars

(***************************************************************************)
(* Several requests of one client in flight together: the wrapper and the  *)
(* response hook keep nothing on the client between calls, each call of    *)
(* _get_handler constructs a handler, and what the hook needs travels on   *)
(* the request object of the response.                                     *)
(***************************************************************************)
\* the requests one client has in flight together
MaxFlight == 2

\* OpenAI._get_handler as a constructor: the handler it returns is a new
\* instance, numbered by the count of instances constructed so far; 0 when
\* the path has no handler
construct_handler(constructed, path) ==
    IF get_handler(path) = NoHandler THEN 0 ELSE constructed + 1

\* the client of the interleaved requests
FlightClient ==
    [provider |-> "openai", global_input_policies |-> <<"anonymize_pii">>,
     global_output_policies |-> <<>>]

\* chat requests that differ in their question and in their output list
FlightBodies ==
    { [model |-> "gpt", messages |-> <<[role |-> "user", content |-> "t"]>>,
       output_policies |-> <<"anonymize_pii">>],
      [model |-> "gpt", messages |-> <<[role |-> "user", content |-> "u"]>>,
       output_policies |-> <<"reject_irrelevant_answer", "anonymize_pii">>,
       input_policies |-> <<>>],
      [model |-> "gpt", messages |-> <<[role |-> "user", content |-> "u"]>>,
       input_policies |-> <<>>] }

FlightResponses ==
    { [status_code |-> 200, content_type |-> "application/json",
       json |-> ChatAnswer("ans")],
      [status_code |-> 500, content_type |-> "application/json",
       json |-> ChatAnswer("")] }

\* the outcomes of the runs of interleaved requests
FlightTapes(n) == { tape \in Tapes(n) : \A i \in 1..n : tape[i] # Returned("", "pass") }

InitFlight ==
    /\ client = FlightClient
    /\ phase = "idle"
    /\ req = NoRequest
    /\ resp = NoResponse
    /\ flight = NoFlight
    /\ trace = NoTrace
    /\ sdk = NoSdk
    /\ http = NoHttp
    /\ twin = NoTwin
    /\ ingest = NoIngest

\* one more request is built while the earlier ones await their responses
in_flight(request, instance) ==
    [request |-> request, built_by |-> instance,
     response |-> NoResponse, hooked_by |-> 0]

FlightBuildRequest ==
    /\ Len(flight.requests) < MaxFlight
    /\ \E body \in FlightBodies :
         \E tape \in FlightTapes(Runnable(ResolvedInput([json |-> body]))) :
            flight' =
              [requests |->
                 Append(flight.requests,
                        in_flight(build_request_wrapper(
                                      client, "/v1/chat/completions", body, tape),
                                  construct_handler(flight.handlers,
                                                    "/v1/chat/completions"))),
               handlers |-> flight.handlers + 1]
    /\ UNCHANGED <<client, phase, req, resp, trace, sdk, http, twin, ingest>>

\* the hook gets as far as _get_handler
reaches_get_handler(response) ==
    /\ response.status_code = 200
    /\ response.content_type = "application/json"
    /\ response.json # NotJson

hooked(entry, response, hook, instance) ==
    [entry EXCEPT !.response = HookResult(response, hook),
                  !.hooked_by = instance]

\* the response of any request in flight arrives
FlightResponse ==
    /\ \E i \in DOMAIN flight.requests :
         /\ ~flight.requests[i].request.raised
         /\ flight.requests[i].response = NoResponse
         /\ \E response \in FlightResponses :
              \E tape \in FlightTapes(Runnable(stamped_output_policies(
                                          flight.requests[i].request))) :
                 flight' =
                   [requests |->
                      [flight.requests EXCEPT ![i] =
                         hooked(@, response,
                                run_output_policies(@.request, response, tape),
                                IF reaches_get_handler(response)
                                THEN construct_handler(flight.handlers,
                                                       @.request.path)
                                ELSE 0)],
                    handlers |->
                      IF reaches_get_handler(response)
                      THEN flight.handlers + 1 ELSE flight.handlers]
    /\ UNCHANGED <<client, phase, req, resp, trace, sdk, http, twin, ingest>>

NextFlight ==
    \/ FlightBuildRequest
    \/ FlightResponse

SpecFlight == InitFlight /\ [][NextFlight]_vars

(***************************************************************************)
(* tracer.py: trace_function.  A decorated function is [name, params,      *)
(* is_async, span_name]; a call passes its first arguments positionally    *)
(* (args) and the rest by keyword (kwargs).  What the wrapped function     *)
(* does when it is called is the environment's choice: it returns a value, *)
(* raises an Exception, or raises a BaseException that is no Exception     *)
(* (KeyboardInterrupt; CancelledError when an awaiting task is cancelled). *)
(* A span is the record of the calls made on it.  The SDK is initialised,  *)
(* so get_tracer returns the tracer.                                       *)
(***************************************************************************)
\* the traced calls of one run
MaxCalls == 2

\* a value that is not a str, int, float, bool, None, dict, list or tuple
\* and has no model_dump
Object(repr) == [kind |-> "object", repr |-> repr]

\* _prepare_for_otel: a str is used as it is, another object becomes str(value)
prepare_for_otel(value) ==
    IF value.kind = "str" THEN value ELSE Str(value.repr)

\* overmind.utils.serializers.serialize: the serialised form of a value
serialize(value) == [serialized |-> value]

\* the span operations the wrappers use
start_span(name) ==
    [name |-> name, attributes |-> <<>>, status |-> <<>>,
     exceptions |-> <<>>, ended |-> 0]
set_attribute(span, key, value) ==
    [span EXCEPT !.attributes = Append(@, <<key, value>>)]
set_status(span, code) == [span EXCEPT !.status = Append(@, code)]
record_exception(span, e) == [span EXCEPT !.exceptions = Append(@, e)]
\* leaving the with block ends the span
end_span(span) == [span EXCEPT !.ended = @ + 1]

\* is_method and start_idx
is_method(param_names) ==
    Len(param_names) > 0 /\ param_names[1] \in {"self", "cls"}
start_idx(param_names) == IF is_method(param_names) THEN 1 ELSE 0

\* the key of the positional argument args[i], i counted from 0
positional_key(param_names, i) ==
    IF i < Len(param_names) THEN param_names[i + 1]
    ELSE "arg_" \o ToString(i)

\* the inputs dict: the positional arguments from start_idx on, then every
\* keyword argument under its key
capture_inputs(param_names, args, kwargs) ==
    [k \in { positional_key(param_names, i) :
               i \in start_idx(param_names)..(Len(args) - 1) }
           \cup DOMAIN kwargs |->
        IF k \in DOMAIN kwargs THEN prepare_for_otel(kwargs[k])
        ELSE prepare_for_otel(
                 args[1 + CHOOSE i \in start_idx(param_names)..(Len(args) - 1) :
                              positional_key(param_names, i) = k])]

\* what the wrapped function does, and what a wrapper hands to its caller
NoValue == [kind |-> "none"]
Return(value) == [kind |-> "return", value |-> value, exc |-> None]
Raise(e) == [kind |-> "raise", value |-> NoValue, exc |-> e]

\* the classes `except Exception` catches
ExceptionClasses == {"ValueError", "RuntimeError"}

\* the wrapper up to the call of func: the span is started under
\* `span_name or func.__name__` and the inputs are set on it
wrapper_enter(f, args, kwargs) ==
    set_attribute(start_span(py_or(f.span_name, f.name)), "inputs",
                  serialize(capture_inputs(f.params, args, kwargs)))

\* a wrapper that ends its span after setting the status, without a with
\* block
wrapper_exit_leaking(span, outcome) ==
    IF outcome.kind = "return"
    THEN end_span(set_status(
             set_attribute(span, "outputs",
                           serialize(prepare_for_otel(outcome.value))), "OK"))
    ELSE IF outcome.exc \in ExceptionClasses
    THEN set_status(record_exception(span, outcome.exc), "ERROR")
    ELSE span

\* the wrapper from the return or raise of func to the end of the with
\* block
wrapper_exit(span, outcome) ==
    end_span(
        IF outcome.kind = "return"
        THEN set_status(
                 set_attribute(span, "outputs",
                               serialize(prepare_for_otel(outcome.value))), "OK")
        ELSE IF outcome.exc \in ExceptionClasses
        THEN set_status(record_exception(span, outcome.exc), "ERROR")
        ELSE span)

\* a wrapper that returns the value it recorded on the span
wrapper_result_recorded(outcome) ==
    IF outcome.kind = "return" THEN Return(prepare_for_otel(outcome.value))
    ELSE Raise(outcome.exc)

\* `return result` and the bare `raise`
wrapper_result(outcome) ==
    IF outcome.kind = "return" THEN Return(outcome.value)
    ELSE Raise(outcome.exc)

\* a traced call:
\*   pc          "awaiting" (suspended at the await of func) or "finished"
\*   span        the index in trace.spans of the span the call started
\*   func_calls  the calls of the wrapped function the wrapper made
\*   outcome     what the wrapped function did
\*   result      what the wrapper handed to its caller
traced_call(f, args, kwargs, pc, span, outcome) ==
    [kind |-> "decorated", func |-> f, args |-> args, kwargs |-> kwargs,
     pc |-> pc, span |-> span,
     func_calls |-> <<[args |-> args, kwargs |-> kwargs]>>,
     outcome |-> outcome,
     result |-> IF pc = "finished" THEN wrapper_result(outcome) ELSE outcome]

\* the decorated functions and the ways they are called
DecoratedFunctions ==
    { [name |-> "add_numbers", params |-> <<"a", "b">>,
       is_async |-> FALSE, span_name |-> None],
      [name |-> "my_function", params |-> <<"x">>,
       is_async |-> FALSE, span_name |-> "custom_operation"],
      [name |-> "instance_method", params |-> <<"self", "x">>,
       is_async |-> FALSE, span_name |-> None],
      [name |-> "class_method", params |-> <<"cls", "x">>,
       is_async |-> FALSE, span_name |-> None],
      [name |-> "async_add", params |-> <<"a", "b">>,
       is_async |-> TRUE, span_name |-> "async_operation"],
      [name |-> "async_method", params |-> <<"self", "x">>,
       is_async |-> TRUE, span_name |-> None] }

\* the value a call passes for a parameter: the receiver object, or a text
ArgTexts(f) == IF f.name = "async_add" THEN {"5", "7"} ELSE {"5"}
Argument(p, t) ==
    IF p \in {"self", "cls"} THEN Object("receiver") ELSE Str(p \o "=" \o t)

\* the first n arguments positionally, the others by keyword
TracedCalls(f) ==
    { [args |-> [i \in 1..n |-> Argument(f.params[i], t)],
       kwargs |-> [p \in { f.params[i] : i \in (n + 1)..Len(f.params) } |->
                     Argument(p, t)]] :
        n \in 0..Len(f.params), t \in ArgTexts(f) }

FuncOutcomes(f) ==
    { Return(Object("result")), Raise("ValueError"),
      Raise(IF f.is_async THEN "CancelledError" ELSE "KeyboardInterrupt") }

NotStarted == Return(NoValue)

\* the span a run_layer call leaves behind
layer_span(call) ==
    [name |-> call.span_name,
     attributes |->
         IF call.attributes = <<>> THEN <<>>
         ELSE << <<"inputs", Str(call.attributes["inputs"])>>,
                 <<"outputs", Str(call.attributes["outputs"])>>,
                 <<"policy_outcome", Str(call.attributes["policy_outcome"])>>,
                 <<"policy_results", Str(call.attributes["policy_results"])>> >>,
     status |-> <<>>, exceptions |-> <<>>, ended |-> call.span_ended]

InitTrace ==
    /\ client = FlightClient
    /\ phase = "idle"
    /\ req = NoRequest
    /\ resp = NoResponse
    /\ flight = NoFlight
    /\ trace = NoTrace
    /\ sdk = NoSdk
    /\ http = NoHttp
    /\ twin = NoTwin
    /\ ingest = NoIngest

\* a call of a decorated synchronous function: sync_wrapper from entry to
\* exit
SyncCall ==
    /\ Len(trace.calls) < MaxCalls
    /\ \E f \in DecoratedFunctions :
         /\ ~f.is_async
         /\ \E c \in TracedCalls(f), outcome \in FuncOutcomes(f) :
              trace' =
                [spans |-> Append(trace.spans,
                                  wrapper_exit(wrapper_enter(f, c.args, c.kwargs),
                                               outcome)),
                 calls |-> Append(trace.calls,
                                  traced_call(f, c.args, c.kwargs, "finished",
                                              Len(trace.spans) + 1, outcome))]
    /\ UNCHANGED <<client, phase, req, resp, flight, sdk, http, twin, ingest>>

\* a call of a decorated coroutine function runs to the await of func
AsyncStart ==
    /\ Len(trace.calls) < MaxCalls
    /\ \E f \in DecoratedFunctions :
         /\ f.is_async
         /\ \E c \in TracedCalls(f) :
              trace' =
                [spans |-> Append(trace.spans,
                                  wrapper_enter(f, c.args, c.kwargs)),
                 calls |-> Append(trace.calls,
                                  traced_call(f, c.args, c.kwargs, "awaiting",
                                              Len(trace.spans) + 1, NotStarted))]
    /\ UNCHANGED <<client, phase, req, resp, flight, sdk, http, twin, ingest>>

\* a wrapper that records on the span that is current in the tracer
span_of_current(call) == Len(trace.spans)

\* the local variable span of the wrapper's frame
span_of(call) == call.span

\* the awaited coroutine of a suspended call returns, raises or is
\* cancelled, and async_wrapper runs to its exit
AsyncResume ==
    /\ \E i \in DOMAIN trace.calls :
         /\ trace.calls[i].kind = "decorated"
         /\ trace.calls[i].pc = "awaiting"
         /\ \E outcome \in FuncOutcomes(trace.calls[i].func) :
              trace' =
                [spans |-> [trace.spans EXCEPT ![span_of(trace.calls[i])] =
                               wrapper_exit(@, outcome)],
                 calls |-> [trace.calls EXCEPT ![i] =
                               traced_call(@.func, @.args, @.kwargs, "finished",
                                           @.span, outcome)]]
    /\ UNCHANGED <<client, phase, req, resp, flight, sdk, http, twin, ingest>>

\* a run of a policy through OvermindClient.run_layer
layer_run(call, span) ==
    [kind |-> "run_layer", pc |-> "finished", span |-> span, layer |-> call]

RunLayer ==
    /\ Len(trace.calls) < MaxCalls
    /\ \E policy \in {"anonymize_pii", "not_a_real_policy"},
          outcome \in LayerOutcomes :
         trace' =
           [spans |-> IF run_layer(policy, "t", None, outcome).span
                      THEN Append(trace.spans,
                                  layer_span(run_layer(policy, "t", None, outcome)))
                      ELSE trace.spans,
            calls |-> Append(trace.calls,
                             layer_run(run_layer(policy, "t", None, outcome),
                                       IF run_layer(policy, "t", None, outcome).span
                                       THEN Len(trace.spans) + 1 ELSE 0))]
    /\ UNCHANGED <<client, phase, req, resp, flight, sdk, http, twin, ingest>>

NextTrace ==
    \/ SyncCall
    \/ AsyncStart
    \/ AsyncResume
    \/ RunLayer

SpecTrace == InitTrace /\ [][NextTrace]_vars

(***************************************************************************)
(* overmind_client.py: OvermindClient.__init__; api_settings.py:           *)
(* get_api_settings; overmind_sdk.init.  The process has one               *)
(* OVERMIND_API_KEY variable (None when it is not set) and one SDK state.  *)
(* Every constructor and init call of the process is recorded.             *)
(***************************************************************************)
\* the constructor and init calls of one process
MaxSdkCalls == 3

\* overmind_api_key as a caller passes it, and os.getenv("OVERMIND_API_KEY")
KeyArguments == {None, "", "arg_key"}
EnvValues == {None, "", "env_key"}

\* overmind_sdk.init: the first call configures the tracer provider and
\* sets _initialized, a later call returns at once
init(s, overmind_api_key) ==
    IF s.initialized THEN [s EXCEPT !.init_calls = @ + 1]
    ELSE [s EXCEPT !.init_calls = @ + 1, !.initialized = TRUE,
                   !.configured_by =
                       Append(@, [call |-> s.init_calls + 1,
                                  key |-> overmind_api_key])]

\* the record of one key resolution: what was passed, what the variable
\* held, the key resolved and the error raised
construction(by, arg, env, key, error) ==
    [by |-> by, arg |-> arg, env |-> env, key |-> key, error |-> error]

KeyNotSet == "ValueError: OVERMIND_API_KEY is not set"
NoKeyProvided == "OvermindError: No Overmind API key provided"

\* a constructor that sets up the tracer provider itself
OvermindClient_init_configuring(s, overmind_api_key) ==
    IF py_or(overmind_api_key, s.env) \in {None, ""}
    THEN [s EXCEPT !.constructions =
              Append(@, construction("OvermindClient", overmind_api_key,
                                     s.env, None, KeyNotSet))]
    ELSE [s EXCEPT !.init_calls = @ + 1, !.initialized = TRUE,
                   !.configured_by =
                       Append(@, [call |-> s.init_calls + 1,
                                  key |-> overmind_api_key]),
                   !.constructions =
              Append(@, construction("OvermindClient", overmind_api_key,
                                     s.env,
                                     py_or(overmind_api_key, s.env), NoError))]

\* OvermindClient.__init__: `overmind_api_key or os.getenv(...)`, ValueError
\* when that is falsy, then init with the argument as it was passed
OvermindClient_init(s, overmind_api_key) ==
    IF py_or(overmind_api_key, s.env) \in {None, ""}
    THEN [s EXCEPT !.constructions =
              Append(@, construction("OvermindClient", overmind_api_key,
                                     s.env, None, KeyNotSet))]
    ELSE [init(s, overmind_api_key) EXCEPT !.constructions =
              Append(@, construction("OvermindClient", overmind_api_key,
                                     s.env,
                                     py_or(overmind_api_key, s.env), NoError))]

\* get_api_settings: the variable is read only when the argument is None,
\* OvermindError only when the variable is not set either
get_api_settings(overmind_api_key, env) ==
    IF overmind_api_key # None
    THEN construction("get_api_settings", overmind_api_key, env,
                      overmind_api_key, NoError)
    ELSE IF env = None
    THEN construction("get_api_settings", overmind_api_key, env,
                      None, NoKeyProvided)
    ELSE construction("get_api_settings", overmind_api_key, env, env, NoError)

\* the calls made so far: the constructions, and the init calls that no
\* construction made
SdkCalls ==
    Len(sdk.constructions) + sdk.init_calls
    - Cardinality({ i \in DOMAIN sdk.constructions :
                      /\ sdk.constructions[i].by = "OvermindClient"
                      /\ sdk.constructions[i].error = NoError })

InitSdk ==
    /\ client = FlightClient
    /\ phase = "idle"
    /\ req = NoRequest
    /\ resp = NoResponse
    /\ flight = NoFlight
    /\ trace = NoTrace
    /\ sdk \in { [NoSdk EXCEPT !.env = e] : e \in EnvValues }
    /\ http = NoHttp
    /\ twin = NoTwin
    /\ ingest = NoIngest

\* a client class constructs its OvermindClient
ConstructOvermindClient ==
    /\ SdkCalls < MaxSdkCalls
    /\ \E overmind_api_key \in KeyArguments :
         sdk' = OvermindClient_init(sdk, overmind_api_key)
    /\ UNCHANGED <<client, phase, req, resp, flight, trace, http, twin, ingest>>

\* a client that resolves its settings through get_api_settings is
\* constructed
ConstructWithApiSettings ==
    /\ SdkCalls < MaxSdkCalls
    /\ \E overmind_api_key \in KeyArguments :
         sdk' = [sdk EXCEPT !.constructions =
                     Append(@, get_api_settings(overmind_api_key, sdk.env))]
    /\ UNCHANGED <<client, phase, req, resp, flight, trace, http, twin, ingest>>

\* the application calls init itself
CallInit ==
    /\ SdkCalls < MaxSdkCalls
    /\ \E overmind_api_key \in {"test_key", "arg_key"} :
         sdk' = init(sdk, overmind_api_key)
    /\ UNCHANGED <<client, phase, req, resp, flight, trace, http, twin, ingest>>

NextSdk ==
    \/ ConstructOvermindClient
    \/ ConstructWithApiSettings
    \/ CallInit

SpecSdk == InitSdk /\ [][NextSdk]_vars

(***************************************************************************)
(* Construction of a wrapped client around an HTTP client, requests        *)
(* without a body or with an unusual one, and a request built again from   *)
(* the body object of an earlier build.                                    *)
(*   http   the underlying httpx client: the event hooks the application   *)
(*          configured on it, its event hooks now, whether the wrapped     *)
(*          client has been constructed around it, and the builds the      *)
(*          wrapped build_request has made, in order                       *)
(***************************************************************************)
MaxBuilds == 2

\* the hooks of the http_client the application passes to the constructor
UserEventHooks ==
    { [request |-> r, response |-> s] :
        r \in {<<>>, <<"log_request">>}, s \in {<<>>, <<"log_response">>} }

\* `self._client.event_hooks = event_hooks`: the assignment replaces the
\* lists of both events by those of the dict assigned
set_event_hooks(h, event_hooks) ==
    [h EXCEPT !.event_hooks =
        [request |-> IF Has(event_hooks, "request")
                     THEN event_hooks["request"] ELSE <<>>,
         response |-> IF Has(event_hooks, "response")
                      THEN event_hooks["response"] ELSE <<>>]]

\* OpenAI.__init__ on the HTTP client super().__init__(**kwargs) set up
OpenAI_init(h) ==
    [set_event_hooks(h, [response |-> <<"run_output_policies">>])
        EXCEPT !.constructed = TRUE]

\* Anthropic.__init__
Anthropic_init(h) ==
    [set_event_hooks(h, [response |-> <<"run_output_policies">>])
        EXCEPT !.constructed = TRUE]

NoClient ==
    [provider |-> None, global_input_policies |-> <<>>,
     global_output_policies |-> <<>>]

HttpClients ==
    { [provider |-> p, global_input_policies |-> d.input,
       global_output_policies |-> d.output] :
        p \in {"openai", "anthropic"}, d \in DefaultPairs }

HttpOverrides ==
    { <<>>,
      [input_policies |-> <<"anonymize_pii">>],
      [output_policies |-> <<"reject_irrelevant_answer">>],
      [input_policies |-> <<>>, output_policies |-> <<>>] }

\* bodies of the chat endpoint: a usual one, an empty messages list, a last
\* message with a further key, and a last message without a role
HttpChatBodies ==
    { [model |-> "gpt", messages |-> m] :
        m \in { <<[role |-> "user", content |-> "t"]>>,
                <<>>,
                <<NamedMessage("t")>>,
                <<[content |-> "t"]>> } }

\* bodies of the responses endpoint: with and without the input field
HttpInputBodies == { [model |-> "gpt", input |-> "t"], [model |-> "gpt"] }

\* bodies of the Anthropic messages endpoint: string and block-list content,
\* an empty messages list, a last message without a role and with a
\* further key
HttpMessagesBodies ==
    { [model |-> "claude", max_tokens |-> 16, messages |-> m] :
        m \in { <<[role |-> "user", content |-> Str("t")]>>,
                <<[role |-> "user",
                   content |-> Blocks(<<TextBlock("t"), ImageBlock>>)]>>,
                <<>>,
                <<[content |-> Str("t"), name |-> "n"]>> } }

HttpRequests(provider) ==
    IF provider = "openai"
    THEN { [path |-> "/v1/chat/completions", json |-> b] : b \in HttpChatBodies }
         \cup { [path |-> "/v1/responses", json |-> b] : b \in HttpInputBodies }
         \cup { [path |-> "/v1/audio/speech",
                 json |-> [model |-> "tts", input |-> "t", voice |-> "alloy"]] }
         \cup { [path |-> p, json |-> NoJson] :
                  p \in {"/v1/responses", "/v1/models"} }
    ELSE { [path |-> "/v1/messages", json |-> b] : b \in HttpMessagesBodies }
         \cup { [path |-> p, json |-> NoJson] :
                  p \in {"/v1/messages", "/v1/models"} }

\* the wrapped build_request of the client
wrapped_build_request(cl, path, json, tape) ==
    IF cl.provider = "openai"
    THEN build_request_wrapper(cl, path, json, tape)
    ELSE anthropic_build_request_wrapper(cl, path, json, tape)

\* the number of run_layer calls a build can make for a body
HttpRunnable(cl, json) ==
    Runnable(pop_or_default(json, "input_policies", cl.global_input_policies))
    * (IF cl.provider = "openai" THEN 1 ELSE TextUnits([json |-> json]))

InitHttp ==
    /\ client = NoClient
    /\ phase = "idle"
    /\ req = NoRequest
    /\ resp = NoResponse
    /\ flight = NoFlight
    /\ trace = NoTrace
    /\ sdk = NoSdk
    /\ http \in { [NoHttp EXCEPT !.configured = e, !.event_hooks = e] :
                   e \in UserEventHooks }
    /\ twin = NoTwin
    /\ ingest = NoIngest

\* the application constructs the wrapped client
ConstructClient ==
    /\ ~http.constructed
    /\ \E cl \in HttpClients :
         /\ client' = cl
         /\ http' = IF cl.provider = "openai" THEN OpenAI_init(http)
                    ELSE Anthropic_init(http)
    /\ UNCHANGED <<phase, req, resp, flight, trace, sdk, twin, ingest>>

\* the SDK builds a request through the wrapped build_request
HttpBuildRequest ==
    /\ http.constructed
    /\ http.builds = <<>>
    /\ \E r \in HttpRequests(client.provider), o \in HttpOverrides :
         LET body == IF r.json = NoJson THEN NoJson ELSE r.json @@ o
         IN  \E tape \in FlightTapes(HttpRunnable(client, body)) :
               http' = [http EXCEPT !.builds =
                           <<wrapped_build_request(client, r.path, body, tape)>>]
    /\ UNCHANGED <<client, phase, req, resp, flight, trace, sdk, twin, ingest>>

\* the SDK builds the request again, passing the body object of the build
\* before, as that build left it
BuildRequestAgain ==
    /\ http.builds # <<>>
    /\ Len(http.builds) < MaxBuilds
    /\ ~Last(http.builds).raised
    /\ LET last == Last(http.builds)
       IN  \E tape \in FlightTapes(HttpRunnable(client, last.json)) :
             http' = [http EXCEPT !.builds = Append(@,
                         wrapped_build_request(client, last.path, last.json, tape))]
    /\ UNCHANGED <<client, phase, req, resp, flight, trace, sdk, twin, ingest>>

NextHttp ==
    \/ ConstructClient
    \/ HttpBuildRequest
    \/ BuildRequestAgain

SpecHttp == InitHttp /\ [][NextHttp]_vars
(***************************************************************************)
(* Two runs of one request under policy results that differ in their       *)
(* verdicts only.                                                          *)
(*   twin   the two runs, each the request as built and the response as    *)
(*          the hook left it                                               *)
(***************************************************************************)
MaxVerdictPolicies == 1

\* the values of overall_policy_outcome
Verdicts == {"pass", "fail", "flag"}

VerdictOutcomes == { Raised } \cup { Returned("p", v) : v \in Verdicts }

VerdictTapes(n) ==
    { tape \in [1..n -> VerdictOutcomes] :
        \A i \in 1..(n - 1) : tape[i].raised => tape[i + 1].raised }

\* the same results up to the verdicts
SameButVerdicts(tape1, tape2) ==
    \A i \in DOMAIN tape1 \cap DOMAIN tape2 :
        /\ tape1[i].raised = tape2[i].raised
        /\ tape1[i].processed_data = tape2[i].processed_data

\* lists of registered policies, up to MaxVerdictPolicies long
TwinPolicyLists ==
    { [i \in 1..n |-> IF i % 2 = 1 THEN "anonymize_pii"
                      ELSE "reject_irrelevant_answer"] :
        n \in 0..MaxVerdictPolicies }

TwinClients ==
    { [provider |-> p, global_input_policies |-> i,
       global_output_policies |-> o] :
        p \in {"openai", "anthropic", "google"},
        i \in TwinPolicyLists, o \in TwinPolicyLists }

TwinRequests(provider) ==
    IF provider = "openai"
    THEN { [path |-> "/v1/chat/completions",
            json |-> [model |-> "gpt",
                      messages |-> <<[role |-> "user", content |-> "t"]>>]],
           [path |-> "/v1/responses", json |-> [model |-> "gpt", input |-> "t"]] }
    ELSE { [path |-> "/v1/messages",
            json |-> [model |-> "claude", max_tokens |-> 16,
                      messages |-> <<[role |-> "user", content |-> Str("t")]>>]] }

TwinResponses(provider, path) ==
    { [status_code |-> 200, content_type |-> "application/json",
       json |-> IF provider = "openai" THEN OpenAIAnswer(path, "ans")
                ELSE MessagesAnswer("ans")] }

TwinContents ==
    { Str("t"),
      Items(<<Dict([role |-> "user", parts |-> <<[text |-> "t"]>>])>>) }

\* one run: the request as the wrapper built it and the response as the
\* hook left it
Run(request, response) == [req |-> request, resp |-> response]

\* the response hook of the client on the response to a request
response_hook(cl, request, response, tape) ==
    IF cl.provider = "openai"
    THEN HookResult(response, run_output_policies(request, response, tape))
    ELSE HookResult(response,
                    anthropic_run_output_policies(request, response, tape))

InitTwin ==
    /\ client \in TwinClients
    /\ phase = "idle"
    /\ req = NoRequest
    /\ resp = NoResponse
    /\ flight = NoFlight
    /\ trace = NoTrace
    /\ sdk = NoSdk
    /\ http = NoHttp
    /\ twin = NoTwin
    /\ ingest = NoIngest

\* the same request is built in both runs
TwinBuildRequest ==
    /\ client.provider \in {"openai", "anthropic"}
    /\ twin.runs = <<>>
    /\ \E r \in TwinRequests(client.provider) :
         \E tape1 \in VerdictTapes(Len(client.global_input_policies)),
            tape2 \in VerdictTapes(Len(client.global_input_policies)) :
            /\ SameButVerdicts(tape1, tape2)
            /\ twin' = [runs |->
                 <<Run(wrapped_build_request(client, r.path, r.json, tape1),
                       NoResponse),
                   Run(wrapped_build_request(client, r.path, r.json, tape2),
                       NoResponse)>>]
    /\ UNCHANGED <<client, phase, req, resp, flight, trace, sdk, http, ingest>>

\* the same response arrives in each run that sent its request
TwinResponse ==
    /\ client.provider \in {"openai", "anthropic"}
    /\ twin.runs # <<>>
    /\ \A i \in DOMAIN twin.runs : twin.runs[i].resp = NoResponse
    /\ \E i \in DOMAIN twin.runs : ~twin.runs[i].req.raised
    /\ \E response \in TwinResponses(client.provider, twin.runs[1].req.path) :
         \E tape1 \in VerdictTapes(Len(twin.runs[1].req.output_policies)),
            tape2 \in VerdictTapes(Len(twin.runs[2].req.output_policies)) :
            /\ SameButVerdicts(tape1, tape2)
            /\ twin' = [runs |->
                 [i \in DOMAIN twin.runs |->
                    IF twin.runs[i].req.raised THEN twin.runs[i]
                    ELSE Run(twin.runs[i].req,
                             response_hook(client, twin.runs[i].req, response,
                                           IF i = 1 THEN tape1 ELSE tape2))]]
    /\ UNCHANGED <<client, phase, req, resp, flight, trace, sdk, http, ingest>>

\* the same generate_content call is made in both runs
TwinGenerateContent ==
    /\ client.provider = "google"
    /\ twin.runs = <<>>
    /\ \E contents \in TwinContents, response \in GoogleResponses :
         \E in1 \in VerdictTapes(Len(client.global_input_policies)),
            in2 \in VerdictTapes(Len(client.global_input_policies)),
            out1 \in VerdictTapes(Len(client.global_output_policies)),
            out2 \in VerdictTapes(Len(client.global_output_policies)) :
            /\ SameButVerdicts(in1, in2) /\ SameButVerdicts(out1, out2)
            /\ LET run1 == wrapped_generate_content(
                               client, contents, in1, response, out1)
                   run2 == wrapped_generate_content(
                               client, contents, in2, response, out2)
               IN  twin' = [runs |-> <<Run(run1.request, run1.response),
                                       Run(run2.request, run2.response)>>]
    /\ UNCHANGED <<client, phase, req, resp, flight, trace, sdk, http, ingest>>

NextTwin ==
    \/ TwinBuildRequest
    \/ TwinResponse
    \/ TwinGenerateContent

SpecTwin == InitTwin /\ [][NextTwin]_vars
(***************************************************************************)
(* utils/dump_logs.py: ingest_logs.                                        *)
(*   ingest   the file being ingested (its suffix and its items, in file   *)
(*            order), the field mapping, the position of the loop, the     *)
(*            items a span was recorded for, the items whose failure was   *)
(*            printed, and how the call ended                              *)
(* An item of a file is [json, fields]: whether its text parses, and the   *)
(* keys of the dict it parses to.                                          *)
(***************************************************************************)
MaxItems == 3

RequiredFields == {"input", "output", "start_time", "end_time"}

\* the mappings of the tests: none, and the llm_ / _nano names
NoMapping == <<>>
TestMapping ==
    [input |-> "llm_input", output |-> "llm_output",
     start_time |-> "start_time_nano", end_time |-> "end_time_nano"]

\* get_log_item_model.get_field: mapping.get(name, name)
get_field(mapping, name) == IF Has(mapping, name) THEN mapping[name] ELSE name

\* the items a file can hold: a record under the plain names, one under
\* the mapped names, one without the time fields, and, in a .jsonl file,
\* a line that is not JSON
PlainRecord == [json |-> TRUE, fields |-> RequiredFields]
MappedRecord ==
    [json |-> TRUE,
     fields |-> { get_field(TestMapping, name) : name \in RequiredFields }]
PartialRecord == [json |-> TRUE, fields |-> {"input", "output"}]
InvalidLine == [json |-> FALSE, fields |-> {}]

Suffixes == {".jsonl", ".json", ".csv", ".txt"}
SupportedSuffixes == {".jsonl", ".json", ".csv"}

ItemsOf(suffix) ==
    {PlainRecord, MappedRecord, PartialRecord}
    \cup (IF suffix = ".jsonl" THEN {InvalidLine} ELSE {})

LogFiles(suffix) ==
    UNION { [1..n -> ItemsOf(suffix)] : n \in 0..MaxItems }

UnsupportedExtension == "ValueError: Unsupported file extension"
JSONDecodeError == "json.JSONDecodeError"

\* load_from_jsonl / load_from_json / load_from_csv, advanced by the for
\* statement: the next item, or the error json.loads raises on the line
load_next(g) ==
    IF g.suffix = ".jsonl" /\ ~g.items[g.next].json
    THEN [raised |-> TRUE, error |-> JSONDecodeError]
    ELSE [raised |-> FALSE, error |-> None]

\* process_log_item: model_validate raises when a required field is not
\* in the item under its alias; else the span is started and ended
process_log_item(item, mapping) ==
    [raised |-> ~({ get_field(mapping, name) : name \in RequiredFields }
                  \subseteq item.fields)]

\* one turn of `for i, dict_item in tqdm(enumerate(items))`: the item is
\* taken from the loader by the for statement, outside the try block, and
\* processed inside it
ingest_item(g) ==
    LET loaded == load_next(g)
    IN  IF loaded.raised
        THEN [g EXCEPT !.status = "raised", !.error = loaded.error]
        ELSE IF process_log_item(g.items[g.next], g.mapping).raised
        THEN \* except Exception: print and continue
             [g EXCEPT !.next = @ + 1, !.failed = Append(@, g.next)]
        ELSE [g EXCEPT !.next = @ + 1, !.spans = Append(@, g.next)]

\* ingest_logs up to the loop: init, then the loader chosen by the suffix
ingest_logs(g, suffix, mapping, items) ==
    IF suffix \notin SupportedSuffixes
    THEN [g EXCEPT !.suffix = suffix, !.mapping = mapping, !.items = items,
                   !.status = "raised", !.error = UnsupportedExtension]
    ELSE [g EXCEPT !.suffix = suffix, !.mapping = mapping, !.items = items,
                   !.next = 1, !.status = "running"]

InitIngest ==
    /\ client = NoClient
    /\ phase = "idle"
    /\ req = NoRequest
    /\ resp = NoResponse
    /\ flight = NoFlight
    /\ trace = NoTrace
    /\ sdk = NoSdk
    /\ http = NoHttp
    /\ twin = NoTwin
    /\ ingest = NoIngest

\* the application calls ingest_logs on a file
IngestLogs ==
    /\ ingest.status = "idle"
    /\ \E suffix \in Suffixes, mapping \in {NoMapping, TestMapping},
          overmind_api_key \in {None, "arg_key"} :
         \E items \in LogFiles(suffix) :
            /\ sdk' = init(sdk, overmind_api_key)
            /\ ingest' = ingest_logs(ingest, suffix, mapping, items)
    /\ UNCHANGED <<client, phase, req, resp, flight, trace, http, twin>>

\* the loop takes the next item of the file
IngestItem ==
    /\ ingest.status = "running"
    /\ ingest.next <= Len(ingest.items)
    /\ ingest' = ingest_item(ingest)
    /\ UNCHANGED <<client, phase, req, resp, flight, trace, sdk, http, twin>>

\* the loader is exhausted: ingest_logs returns
IngestReturn ==
    /\ ingest.status = "running"
    /\ ingest.next > Len(ingest.items)
    /\ ingest' = [ingest EXCEPT !.status = "returned"]
    /\ UNCHANGED <<client, phase, req, resp, flight, trace, sdk, http, twin>>

NextIngest ==
    \/ IngestLogs
    \/ IngestItem
    \/ IngestReturn

SpecIngest == InitIngest /\ [][NextIngest]_vars
(***************************************************************************)
(* Reading a request and a response.                                       *)
(***************************************************************************)
Intercepting == client.provider \in {"openai", "anthropic"}
HasRequest == phase \in {"sent", "raised", "done"}
HasResponse == HasRequest /\ resp # NoResponse

\* the texts of a body that input policies apply to, in order
TextsOfContent(content) ==
    IF content.kind = "str" THEN <<content.text>>
    ELSE LET idx == { i \in DOMAIN content.blocks : IsTextBlock(content.blocks[i]) }
             nth(k) == CHOOSE i \in idx : Cardinality({ j \in idx : j < i }) = k - 1
         IN  [k \in 1..Cardinality(idx) |-> content.blocks[nth(k)]["text"]]

TextsOf(handler, json) ==
    IF handler = "chatCompletionHandler"
    THEN <<Last(json["messages"])["content"]>>
    ELSE IF handler = "responsesHandler" THEN <<json["input"]>>
    ELSE TextsOfContent(Last(json["messages"])["content"])

\* the answer text of a response body
AnswerText(json) ==
    IF Has(json, "choices")
    THEN IF json["choices"] # <<>> /\ Has(json["choices"][1], "message")
         THEN json["choices"][1]["message"]["content"] ELSE ""
    ELSE IF Has(json, "output") THEN json["output"][1]["content"][1]["text"]
    ELSE IF Has(json, "content") THEN join_text_blocks(json["content"])
    ELSE ""

\* the body of a response has the fields post_response reads
WellFormed(json) ==
    /\ json # NotJson /\ ~IsJsonList(json)
    /\ \/ Has(json, "choices") /\ json["choices"] # <<>>
          /\ Has(json["choices"][1], "message")
       \/ Has(json, "output")
       \/ Has(json, "content")

\* pre_request ran to its end for the current request
PreRequestDone ==
    /\ Intercepting /\ HasRequest
    /\ req.hooks # <<>> /\ req.hooks[1] = "pre_request"
    /\ ~req.raised

\* the result of a policy step as the specification defines it: the
\* processed_data, or the step's input when processed_data is null
StepResult(call) ==
    IF call.processed_data = None THEN call.input_data
    ELSE call.processed_data

\* the result of a policy step where an empty processed_data counts as null
CarriedResult(call) ==
    IF call.processed_data = None \/ call.processed_data = ""
    THEN call.input_data ELSE call.processed_data

(***************************************************************************)
(* C1.  In the OpenAI and Anthropic handlers, applying the input policies  *)
(* [P1..Pn] to a text T calls the runner once per policy, in list order,   *)
(* the i-th call receiving the result of step i-1 (T for i = 1), and the   *)
(* text placed in the outgoing body is Pn(...P1(T)), a step with a null    *)
(* processed_data leaving its input unchanged.                             *)
(***************************************************************************)
ChainOf(calls, policies, original, sent, result(_)) ==
    LET n == Len(policies)
    IN  /\ Len(calls) = n * Len(original)
        /\ Len(sent) = Len(original)
        /\ \A u \in 1..Len(original) :
             /\ \A i \in 1..n :
                  LET c == calls[(u - 1) * n + i]
                  IN  /\ c.policy = policies[i]
                      /\ c.input_data = IF i = 1 THEN original[u]
                                        ELSE result(calls[(u - 1) * n + i - 1])
             /\ sent[u] = IF n = 0 THEN original[u] ELSE result(calls[u * n])

C1_InputChain ==
    PreRequestDone /\ req.handler \in {"chatCompletionHandler",
                                       "responsesHandler", "messagesHandler"}
    => ChainOf(req.calls, req.input_policies,
               TextsOf(req.handler, req.json_in),
               TextsOf(req.handler, req.json), StepResult)

\* the chain as the code builds it: the same, with an empty processed_data
\* treated like a null one
C1_InputChainAsBuilt ==
    PreRequestDone /\ req.handler \in {"chatCompletionHandler",
                                       "responsesHandler", "messagesHandler"}
    => ChainOf(req.calls, req.input_policies,
               TextsOf(req.handler, req.json_in),
               TextsOf(req.handler, req.json), CarriedResult)

(***************************************************************************)
(* C2.  In the Google wrapper, for string contents and for list contents   *)
(* whose last item carries text parts, the input policies run in list      *)
(* order and each policy receives the previous policy's output, so the     *)
(* text sent for each text unit is Pn(...P1(T)).                           *)
(***************************************************************************)
GoogleTexts(contents) ==
    IF contents.kind = "str" THEN <<contents.text>>
    ELSE LET parts == Last(contents.items).dict["parts"]
             idx == { i \in DOMAIN parts : Has(parts[i], "text") }
             nth(k) == CHOOSE i \in idx : Cardinality({ j \in idx : j < i }) = k - 1
         IN  [k \in 1..Cardinality(idx) |-> parts[nth(k)]["text"]]

GoogleChained ==
    /\ client.provider = "google" /\ HasRequest /\ ~req.raised
    /\ client.global_input_policies # <<>>
    /\ \/ req.json_in.kind = "str" /\ req.json_in.text # ""
       \/ /\ req.json_in.kind = "list" /\ req.json_in.items # <<>>
          /\ Last(req.json_in.items).kind = "dict"

C2_GoogleInputChain ==
    GoogleChained
    => ChainOf(req.calls, client.global_input_policies,
               GoogleTexts(req.json_in), GoogleTexts(req.json), CarriedResult)

\* the string path alone chains
C2_GoogleStringChain ==
    GoogleChained /\ req.json_in.kind = "str"
    => ChainOf(req.calls, client.global_input_policies,
               GoogleTexts(req.json_in), GoogleTexts(req.json), CarriedResult)

(***************************************************************************)
(* C3.  If an input-policy run raises in the pre-request phase (unknown    *)
(* policy name or runner failure), the inner request builder (OpenAI,      *)
(* Anthropic) or the original generate_content (Google) is not invoked for *)
(* that request, and the error reaches the caller.                         *)
(***************************************************************************)
InputRunRaised ==
    HasRequest /\ req.calls # <<>> /\ Last(req.calls).raised

C3_RaiseBlocksRequest ==
    InputRunRaised
    => /\ ~req.built
       /\ req.raised
       /\ phase = "raised"
       /\ \A i \in DOMAIN req.hooks : req.hooks[i] # "build_request"
       /\ resp = NoResponse

\* a runner failure after a first policy has run, and an unknown name
C3_Witness ==
    /\ InputRunRaised /\ ~req.built /\ phase = "raised"
    /\ Len(req.calls) = 2
    /\ req.calls[2].policy \in RegisteredPolicies

C3_WitnessUnknown ==
    /\ InputRunRaised /\ ~req.built /\ phase = "raised"
    /\ Last(req.calls).policy \notin RegisteredPolicies

(***************************************************************************)
(* C4.  For a request whose body declares streaming, on any path, none of  *)
(* pre_request, post_request and post_response executes for that request   *)
(* and no policy is run.                                                   *)
(***************************************************************************)
C4_StreamingBypassed ==
    Intercepting /\ HasRequest /\ req.stream
    => /\ req.hooks \in {<<>>, <<"build_request">>}
       /\ req.calls = <<>>
       /\ HasResponse => resp.hooks = <<>> /\ resp.calls = <<>>

\* what the code does keep: pre_request is skipped and no input policy runs
C4_StreamingSkipsPreRequest ==
    Intercepting /\ HasRequest /\ req.stream
    => /\ \A i \in DOMAIN req.hooks : req.hooks[i] # "pre_request"
       /\ req.calls = <<>>

(***************************************************************************)
(* C5.  For a request whose path resolves to no handler or to a no-op      *)
(* handler (audio speech, compact responses), the body handed to the inner *)
(* request builder is the input body with only the two override keys       *)
(* removed, and no policy runs before the request or after the response,   *)
(* whatever the policy lists contain.                                      *)
(***************************************************************************)
Uninstrumented ==
    /\ Intercepting /\ HasRequest
    /\ req.handler \in {NoHandler, "audioSpeechHandler",
                        "responsesCompactHandler"}

C5_PassThrough ==
    Uninstrumented
    => /\ req.built /\ ~req.raised
       /\ DOMAIN req.json = (DOMAIN req.json_in) \ OverrideKeys
       /\ \A k \in DOMAIN req.json : req.json[k] = req.json_in[k]
       /\ req.calls = <<>>
       /\ HasResponse => resp.calls = <<>>

C5_Witness ==
    /\ Uninstrumented /\ phase = "done"
    /\ req.handler = "audioSpeechHandler"
    /\ req.input_policies # <<>> /\ req.output_policies # <<>>
    /\ Has(req.json_in, "input_policies")
    /\ resp.received.status_code = 200
    /\ resp.received.content_type = "application/json"
    /\ AnswerText(resp.received.json) # ""

(***************************************************************************)
(* C6.  For each of the two policy lists: whenever the request body        *)
(* carries the override key, the list resolved for that request is exactly *)
(* the supplied list, the empty list included, with no entry taken from    *)
(* the client-wide default; the default is used only when the key is       *)
(* absent.                                                                 *)
(***************************************************************************)
Resolved ==
    Intercepting /\ HasRequest /\ DOMAIN req.json_in # {}

C6_OverrideReplaces ==
    Resolved
    => /\ req.input_policies =
            IF Has(req.json_in, "input_policies")
            THEN req.json_in["input_policies"]
            ELSE client.global_input_policies
       /\ req.output_policies =
            IF Has(req.json_in, "output_policies")
            THEN req.json_in["output_policies"]
            ELSE client.global_output_policies

\* what the code does keep: a non-empty override replaces the default
C6_NonEmptyOverrideReplaces ==
    Resolved
    => /\ req.input_policies =
            IF Has(req.json_in, "input_policies")
               /\ req.json_in["input_policies"] # <<>>
            THEN req.json_in["input_policies"]
            ELSE client.global_input_policies
       /\ req.output_policies =
            IF Has(req.json_in, "output_policies")
               /\ req.json_in["output_policies"] # <<>>
            THEN req.json_in["output_policies"]
            ELSE client.global_output_policies

(***************************************************************************)
(* C7.  After any dispatch of a request with a JSON body through the       *)
(* OpenAI or Anthropic wrapper, the body handed to the inner request       *)
(* builder holds neither the input_policies nor the output_policies key,   *)
(* on every path (handler, no handler, streaming, no-op handler).          *)
(***************************************************************************)
C7_OverridesStripped ==
    Intercepting /\ HasRequest /\ req.built
    => /\ ~Has(req.json, "input_policies")
       /\ ~Has(req.json, "output_policies")

C7_Witness ==
    /\ Intercepting /\ HasRequest /\ req.built
    /\ Has(req.json_in, "input_policies")
    /\ Has(req.json_in, "output_policies")
    /\ req.json_in["output_policies"] # <<>>
    /\ req.handler = "chatCompletionHandler"
    /\ req.calls # <<>>

(***************************************************************************)
(* C8.  For every response, every output-policy list and every runner      *)
(* result (a non-null processed_data and a fail verdict included), the     *)
(* parsed body and content the caller gets after post_response (OpenAI,    *)
(* Anthropic) or after the Google wrapper equal those received from the    *)
(* provider.                                                               *)
(***************************************************************************)
C8_ResponseUnchanged ==
    HasResponse
    => resp.json = IF client.provider = "google" THEN resp.received
                   ELSE resp.received.json

C8_Witness ==
    /\ HasResponse /\ phase = "done" /\ resp.returned
    /\ \E i \in DOMAIN resp.calls :
         /\ resp.calls[i].processed_data = "p"
         /\ resp.calls[i].overall_policy_outcome = "fail"

(***************************************************************************)
(* C9.  In the chat-completion and messages handlers, for a non-empty      *)
(* answer text A and output list [O1..Om], post_response makes exactly m   *)
(* runner calls, in list order, each with input A (never a previous output *)
(* policy's result) and with the question correlated from the originating  *)
(* request as context; for an empty answer or an empty list it makes none. *)
(***************************************************************************)
PostResponseRan ==
    /\ Intercepting /\ HasResponse
    /\ req.handler \in {"chatCompletionHandler", "messagesHandler"}
    /\ resp.hooks = <<"post_response">>
    /\ WellFormed(resp.received.json)

OutputCallsAreOf(calls, answer) ==
    \A i \in DOMAIN calls :
        /\ calls[i].policy = stamped_output_policies(req)[i]
        /\ calls[i].input_data = answer
        /\ calls[i].question = req.question

C10_ResponsesRunsOutputPolicies ==
    /\ client.provider = "openai" /\ HasResponse
    /\ req.path = "/v1/responses"
    /\ resp.received.status_code = 200
    /\ resp.received.content_type = "application/json"
    /\ AnswerText(resp.received.json) # ""
    /\ req.output_policies # <<>>
    => /\ resp.calls # <<>>
       /\ OutputCallsAreOf(resp.calls, AnswerText(resp.received.json))
       /\ ~resp.raised => Len(resp.calls) = Len(req.output_policies)

(***************************************************************************)
(* C11.  For every received response: if its status is not 200 or its      *)
(* content type is not JSON, no handler is resolved and no policy runs;    *)
(* otherwise (status 200 and a JSON content type, with or without          *)
(* media-type parameters such as a charset) the handler is resolved from   *)
(* the originating request's path and, if one resolves, post_response is   *)
(* invoked exactly once with the output-policy list stamped on that        *)
(* request.                                                                *)
(***************************************************************************)
\* the media type is application/json, with or without parameters
JsonContentType(content_type) ==
    content_type \in {"application/json", "application/json; charset=utf-8"}

HookGate(is_json(_)) ==
    Intercepting /\ HasResponse /\ resp.received.json # NotJson
    => IF \/ resp.received.status_code # 200
          \/ ~is_json(resp.received.content_type)
       THEN resp.hooks = <<>> /\ resp.calls = <<>>
       ELSE IF req.handler = NoHandler
       THEN resp.hooks = <<>> /\ resp.calls = <<>>
       ELSE /\ resp.hooks = <<"post_response">>
            /\ \A i \in DOMAIN resp.calls :
                 resp.calls[i].policy = stamped_output_policies(req)[i]

C11_HookGate == HookGate(JsonContentType)

\* what the code does keep: the gate, for the bare media type only
ExactJsonContentType(content_type) == content_type = "application/json"
C11_HookGateExactType == HookGate(ExactJsonContentType)

(***************************************************************************)
(* C12.  For a 200 response with JSON content type whose body is malformed *)
(* (not parseable as JSON, or lacking the expected fields: no choices key, *)
(* an empty choices list, no message, a non-object body), the response     *)
(* hook runs no policy and raises no exception.                            *)
(***************************************************************************)
MalformedResponse ==
    /\ Intercepting /\ HasResponse
    /\ resp.received.status_code = 200
    /\ resp.received.content_type = "application/json"
    /\ ~WellFormed(resp.received.json)

C12_MalformedSkipped ==
    MalformedResponse => resp.calls = <<>> /\ ~resp.raised

\* what the code does keep: no policy runs on a malformed body, and the
\* messages handler skips an object without a content key
C12_MalformedRunsNoPolicy ==
    MalformedResponse
    => /\ resp.calls = <<>>
       /\ req.handler = "messagesHandler" /\ resp.received.json = [id |-> "m1"]
          => ~resp.raised

(***************************************************************************)
(* C13.  If an output-policy run raises during post-response processing,   *)
(* the response already received from the provider is not masked or        *)
(* altered: the caller still obtains that response with its content        *)
(* unchanged (OpenAI and Anthropic response hook, and the Google           *)
(* generate_content wrapper).                                              *)
(***************************************************************************)
OutputRunRaised ==
    HasResponse /\ resp.calls # <<>> /\ Last(resp.calls).raised

C13_OutputRaiseKeepsResponse ==
    OutputRunRaised
    => /\ resp.returned
       /\ resp.json = IF client.provider = "google" THEN resp.received
                      ELSE resp.received.json

(***************************************************************************)
(* C14.  Running a policy whose name is not one of the registered          *)
(* built-ins (anonymize_pii, reject_irrelevant_answer,                     *)
(* reject_prompt_injection, reject_llm_judge_with_criteria) raises the     *)
(* unknown-policy error, and it is raised before any remote                *)
(* policy-execution call is made and before a span is opened for that      *)
(* policy.                                                                 *)
(***************************************************************************)
\* every run_layer call made for the current request and its response
AllCalls ==
    (IF HasRequest THEN req.calls ELSE <<>>)
    \o (IF HasResponse THEN resp.calls ELSE <<>>)

C14_UnknownPolicyRaisesFirst ==
    \A i \in DOMAIN AllCalls :
        AllCalls[i].policy \notin
            { "anonymize_pii", "reject_irrelevant_answer",
              "reject_prompt_injection", "reject_llm_judge_with_criteria" }
        => /\ AllCalls[i].raised
           /\ AllCalls[i].error = InvalidLayerName
           /\ ~AllCalls[i].remote
           /\ ~AllCalls[i].span

\* an unknown output policy, run after a registered one that got its span
C14_Witness ==
    /\ HasResponse /\ Len(resp.calls) = 2
    /\ resp.calls[1].span /\ resp.calls[1].remote
    /\ resp.calls[2].policy = "not_a_real_policy"
    /\ resp.calls[2].raised

(***************************************************************************)
(* C15.  Whenever a policy list resolved for a request (input or output)   *)
(* names a policy that is not registered, the unknown-policy error         *)
(* surfaces to the caller in the pre-request phase, before the inner       *)
(* request builder is called, so that request is never sent.               *)
(***************************************************************************)
NamesUnknown(policies) ==
    \E i \in DOMAIN policies : policies[i] \notin RegisteredPolicies

C15_UnknownSurfacesBeforeSend ==
    /\ Resolved
    /\ NamesUnknown(req.input_policies) \/ NamesUnknown(req.output_policies)
    => /\ ~req.built
       /\ req.raised
       /\ phase = "raised"

\* what the code does keep: an unknown name in the input list of a request
\* whose pre_request reaches it
C15_UnknownInputBlocksRequest ==
    /\ Resolved /\ req.calls # <<>>
    /\ Last(req.calls).policy \notin RegisteredPolicies
    => ~req.built /\ req.raised /\ phase = "raised"

(***************************************************************************)
(* C16.  For the chat-completion handler and any request body, pre_request *)
(* changes only the content of the last message: every top-level field of  *)
(* the body (model, etc.) and every other key of the last message (role,   *)
(* name and any further keys) is present with its original value in the    *)
(* dispatched body.                                                        *)
(***************************************************************************)
ChatPreRequestDone ==
    PreRequestDone /\ req.handler = "chatCompletionHandler"

\* the top-level fields other than messages and the popped override keys
TopLevelKept ==
    \A k \in (DOMAIN req.json_in) \ (OverrideKeys \cup {"messages"}) :
        Has(req.json, k) /\ req.json[k] = req.json_in[k]

\* the keys `keys` of the last message
LastMessageKept(keys) ==
    /\ Has(req.json, "messages")
    /\ Len(req.json["messages"]) = Len(req.json_in["messages"])
    /\ \A k \in keys \ {"content"} :
         /\ Has(Last(req.json["messages"]), k)
         /\ Last(req.json["messages"])[k] = Last(req.json_in["messages"])[k]

C16_ChatFrame ==
    ChatPreRequestDone
    => /\ TopLevelKept
       /\ LastMessageKept(DOMAIN Last(req.json_in["messages"]))

\* what the code does keep: the top-level fields and the role
C16_ChatKeepsRole ==
    ChatPreRequestDone => TopLevelKept /\ LastMessageKept({"role"})

(***************************************************************************)
(* C17.  For the messages handler, when the final message's content is a   *)
(* list of typed blocks, every block of type text is passed independently  *)
(* through the full input-policy chain (its own text is the chain's input, *)
(* never a concatenation of blocks) and rewritten with the result, and     *)
(* every block of another type (e.g. image) is left unchanged in the same  *)
(* position.                                                               *)
(***************************************************************************)
BlocksPreRequestDone ==
    /\ PreRequestDone /\ req.handler = "messagesHandler"
    /\ Last(req.json_in["messages"])["content"].kind = "blocks"

\* the chain is the handlers' chain, as C1_InputChainAsBuilt states it; the
\* calls of one text block follow those of the block before it
C17_BlocksIndependent ==
    BlocksPreRequestDone
    => LET before == Last(req.json_in["messages"])["content"]
           after == Last(req.json["messages"])["content"]
       IN  /\ after.kind = "blocks"
           /\ Len(after.blocks) = Len(before.blocks)
           /\ \A i \in DOMAIN before.blocks :
                IF IsTextBlock(before.blocks[i])
                THEN /\ IsTextBlock(after.blocks[i])
                     /\ DOMAIN after.blocks[i] = DOMAIN before.blocks[i]
                ELSE after.blocks[i] = before.blocks[i]
           /\ ChainOf(req.calls, req.input_policies, TextsOfContent(before),
                      TextsOfContent(after), CarriedResult)

\* two text blocks around an image block, two policies, the first block
\* rewritten and the second block run on its own text
C17_Witness ==
    /\ BlocksPreRequestDone
    /\ Len(req.calls) = 4
    /\ req.calls[1].input_data = "t" /\ req.calls[1].processed_data = "p"
    /\ req.calls[2].input_data = "p"
    /\ req.calls[3].input_data = "u"
    /\ Last(req.json["messages"])["content"].blocks[2] = ImageBlock
    /\ Last(req.json["messages"])["content"].blocks[1]["text"] = "p"

(***************************************************************************)
(* C18.  For every provider (chat-completion, messages, Google             *)
(* generate-content) and any conversation of length n, input policies      *)
(* change only text located in the final message or content item: each of  *)
(* the first n-1 conversation turns is identical before and after the      *)
(* pre-request phase.                                                      *)
(***************************************************************************)
\* the conversation of a body: its messages, or the items of Google list
\* contents
Turns(json) ==
    IF Intercepting
    THEN IF Has(json, "messages") THEN json["messages"] ELSE <<>>
    ELSE IF json.kind = "list" THEN json.items ELSE <<>>

C18_EarlierTurnsKept ==
    HasRequest /\ ~req.raised
    => /\ Len(Turns(req.json)) = Len(Turns(req.json_in))
       /\ \A i \in 1..(Len(Turns(req.json_in)) - 1) :
            Turns(req.json)[i] = Turns(req.json_in)[i]

\* a conversation with an earlier turn whose last message was rewritten
C18_Witness ==
    /\ HasRequest /\ ~req.raised /\ req.calls # <<>>
    /\ Len(Turns(req.json_in)) >= 2
    /\ Last(Turns(req.json)) # Last(Turns(req.json_in))
    /\ Turns(req.json)[1] = Turns(req.json_in)[1]

(***************************************************************************)
(* C19.  The text that pre_request submits to input policies and rewrites  *)
(* is always user-authored: for any body, no message whose role is not     *)
(* user (assistant, system, tool) has its content passed to a policy or    *)
(* replaced by policy output.                                              *)
(***************************************************************************)
C19_OnlyUserText ==
    /\ Intercepting /\ HasRequest
    /\ req.handler \in {"chatCompletionHandler", "messagesHandler"}
    /\ req.calls # <<>>
    => Last(req.json_in["messages"])["role"] = "user"

(***************************************************************************)
(* C20.  For every intercepted non-streaming request, the question         *)
(* attached to the request by post_request, and later passed as context to *)
(* each output policy of the matching response, equals the last-message    *)
(* text after input-policy rewriting (the finalized text actually sent),   *)
(* not the caller's original text.                                         *)
(***************************************************************************)
\* " ".join(texts)
RECURSIVE JoinWords(_, _)
JoinWords(texts, i) ==
    IF i > Len(texts) THEN ""
    ELSE IF i = Len(texts) THEN texts[i]
    ELSE texts[i] \o " " \o JoinWords(texts, i + 1)

\* the text of the last message or content item of a body
LastText(json) ==
    IF client.provider = "google"
    THEN IF json.kind = "list" /\ Last(json.items).kind = "str"
         THEN Last(json.items).text
         ELSE JoinWords(GoogleTexts(json), 1)
    ELSE IF req.handler = "messagesHandler"
    THEN JoinWords(TextsOfContent(Last(json["messages"])["content"]), 1)
    ELSE JoinWords(TextsOf(req.handler, json), 1)

QuestionAttached ==
    /\ HasRequest /\ ~req.raised /\ ~req.stream /\ req.attached
    /\ client.provider = "google"
       => req.json_in.kind = "str" \/ (req.json_in.kind = "list"
                                       /\ req.json_in.items # <<>>)

C20_QuestionIsFinalText ==
    QuestionAttached
    => /\ req.question = LastText(req.json)
       /\ HasResponse
          => \A i \in DOMAIN resp.calls :
                resp.calls[i].question = LastText(req.json)

\* the input policy rewrote the text, and the output policy got the
\* rewritten text as its question
C20_Witness ==
    /\ QuestionAttached /\ HasResponse
    /\ LastText(req.json_in) = "t"
    /\ LastText(req.json) = "p"
    /\ resp.calls # <<>>
    /\ resp.calls[1].question = "p"

(***************************************************************************)
(* C21.  For every intercepted request (a handler is resolved and the body *)
(* is not a streaming one) the hooks run in the order pre_request, inner   *)
(* request builder, post_request, post_response: pre_request ends before   *)
(* the builder is called, post_request runs only after both, post_response *)
(* runs only for a request whose post_request has run, and the wrapper and *)
(* the response hook make every hook call, no handler makes one.           *)
(***************************************************************************)
Intercepted ==
    /\ Intercepting /\ HasRequest
    /\ req.handler # NoHandler /\ ~req.stream
    /\ DOMAIN req.json_in # {}

C21_HookOrder ==
    Intercepted
    => /\ req.hooks \in { <<"pre_request">>,
                          <<"pre_request", "build_request", "post_request">> }
       /\ req.hooks = <<"pre_request">> => req.raised /\ ~req.built
       /\ phase = "sent" => Len(req.hooks) = 3 /\ resp.hooks = <<>>
       /\ HasResponse
          => /\ phase = "done" /\ Len(req.hooks) = 3
             /\ resp.hooks \in { <<>>, <<"post_response">> }

\* a request that went through all four steps, with policies run on both sides
C21_Witness ==
    /\ Intercepted /\ phase = "done"
    /\ req.hooks = <<"pre_request", "build_request", "post_request">>
    /\ resp.hooks = <<"post_response">>
    /\ req.calls # <<>> /\ resp.calls # <<>>

(***************************************************************************)
(* C23.  Every run of a registered policy through run_layer opens a span   *)
(* named execute_policy_{policy}, and on every such run, also one whose    *)
(* remote execution raises, the input text is recorded as a span           *)
(* attribute (with the output text, the outcome and the raw results when   *)
(* the run returned).                                                      *)
(***************************************************************************)
SpanOpened(call) ==
    /\ call.span
    /\ call.span_name = "execute_policy_" \o call.policy

C23_SpanRecordsEveryRun ==
    \A i \in DOMAIN AllCalls :
        AllCalls[i].policy \in RegisteredPolicies
        => /\ SpanOpened(AllCalls[i])
           /\ Has(AllCalls[i].attributes, "inputs")
           /\ AllCalls[i].attributes["inputs"] = AllCalls[i].input_data

\* what the code does keep: the span is opened on every run, and the four
\* attributes are recorded on the runs that returned
C23_SpanRecordsReturnedRuns ==
    \A i \in DOMAIN AllCalls :
        AllCalls[i].policy \in RegisteredPolicies
        => /\ SpanOpened(AllCalls[i])
           /\ ~AllCalls[i].raised
              => /\ DOMAIN AllCalls[i].attributes =
                        {"inputs", "outputs", "policy_outcome", "policy_results"}
                 /\ AllCalls[i].attributes["inputs"] = AllCalls[i].input_data
                 /\ AllCalls[i].attributes["policy_outcome"] =
                        AllCalls[i].overall_policy_outcome
           /\ AllCalls[i].raised => AllCalls[i].attributes = <<>>

(***************************************************************************)
(* C22.  For any interleaving of two or more requests through the same     *)
(* client, post_response for a response runs the output-policy list        *)
(* stamped on that response's own request, with the question attached to   *)
(* that request; every dispatch and every response hook uses a handler     *)
(* instance constructed for it, so no two of them share an instance.       *)
(***************************************************************************)
\* the handler instances the requests in flight were built and hooked by
HandlerUses ==
    { <<i, "built_by", flight.requests[i].built_by>> :
        i \in DOMAIN flight.requests }
    \cup { <<i, "hooked_by", flight.requests[i].hooked_by>> :
             i \in DOMAIN flight.requests }

C22_OwnCorrelation ==
    /\ \A i \in DOMAIN flight.requests :
         flight.requests[i].response # NoResponse
         => /\ Len(flight.requests[i].response.calls)
                 <= Len(flight.requests[i].request.output_policies)
            /\ \A k \in DOMAIN flight.requests[i].response.calls :
                 /\ flight.requests[i].response.calls[k].policy =
                        flight.requests[i].request.output_policies[k]
                 /\ flight.requests[i].response.calls[k].question =
                        flight.requests[i].request.question
                 /\ flight.requests[i].request.question =
                        Last(flight.requests[i].request.json["messages"])["content"]
    /\ \A u, v \in HandlerUses :
         u # v /\ u[3] # 0 => u[3] # v[3]

\* two requests with different questions and lists, answered in the
\* opposite order, the output policies run for both
C22_Witness ==
    /\ Len(flight.requests) >= 2
    /\ flight.requests[1].request.question # flight.requests[2].request.question
    /\ flight.requests[1].request.output_policies
         # flight.requests[2].request.output_policies
    /\ flight.requests[1].response # NoResponse
    /\ flight.requests[2].response # NoResponse
    /\ flight.requests[1].response.calls # <<>>
    /\ flight.requests[2].response.calls # <<>>
    /\ flight.requests[2].hooked_by < flight.requests[1].hooked_by
    /\ flight.requests[2].hooked_by # 0

(***************************************************************************)
(* Reading the traced calls and their spans.                               *)
(***************************************************************************)
DecoratedCalls ==
    { i \in DOMAIN trace.calls : trace.calls[i].kind = "decorated" }
SpanOfCall(i) == trace.spans[trace.calls[i].span]

\* the values recorded on a span under an attribute key
Recorded(span, key) ==
    { span.attributes[j][2] :
        j \in { n \in DOMAIN span.attributes : span.attributes[n][1] = key } }

\* the inputs dict a decorated call recorded
InputsOf(i) == SpanOfCall(i).attributes[1][2].serialized

\* the value call i passed for the k-th parameter of its function
Passed(i, k) ==
    IF k <= Len(trace.calls[i].args) THEN trace.calls[i].args[k]
    ELSE trace.calls[i].kwargs[trace.calls[i].func.params[k]]

\* each call that started a span has a span of its own
OwnSpan(i) ==
    /\ trace.calls[i].span \in DOMAIN trace.spans
    /\ \A j \in DOMAIN trace.calls :
         j # i => trace.calls[j].span # trace.calls[i].span

(***************************************************************************)
(* C24.  Every span opened by run_layer or by the trace decorator (sync or *)
(* async) is ended when the call exits, by a normal return, by a fail      *)
(* verdict or by an exception: no finished call has its span still open,   *)
(* and no span is ended twice.                                             *)
(***************************************************************************)
C24_SpansClosed ==
    /\ \A i \in DOMAIN trace.calls :
         trace.calls[i].pc = "finished" /\ trace.calls[i].span # 0
         => SpanOfCall(i).ended = 1
    /\ \A j \in DOMAIN trace.spans : trace.spans[j].ended <= 1

\* a policy run with verdict fail, then a coroutine that was cancelled
C24_Witness ==
    /\ Len(trace.calls) = 2
    /\ trace.calls[1].kind = "run_layer"
    /\ trace.calls[1].layer.overall_policy_outcome = "fail"
    /\ SpanOfCall(1).ended = 1
    /\ trace.calls[2].kind = "decorated" /\ trace.calls[2].pc = "finished"
    /\ trace.calls[2].outcome = Raise("CancelledError")
    /\ SpanOfCall(2).ended = 1

(***************************************************************************)
(* C25.  When a function wrapped by the trace decorator (sync or async)    *)
(* raises, the wrapper re-raises the same exception, and the call's span   *)
(* has exactly one recorded exception event and exactly one status call,   *)
(* ERROR, and no OK status.                                                *)
(***************************************************************************)
RaisedCalls ==
    { i \in DecoratedCalls :
        /\ trace.calls[i].pc = "finished"
        /\ trace.calls[i].outcome.kind = "raise" }

C25_RaiseRecordedOnce ==
    \A i \in RaisedCalls :
        /\ trace.calls[i].result = Raise(trace.calls[i].outcome.exc)
        /\ SpanOfCall(i).exceptions = <<trace.calls[i].outcome.exc>>
        /\ SpanOfCall(i).status = <<"ERROR">>

\* what the code does keep: the same exception is re-raised in every case,
\* and an Exception is recorded once with one ERROR status; an exception
\* that is no Exception leaves no event and no status
C25_ExceptionRecordedOnce ==
    \A i \in RaisedCalls :
        /\ trace.calls[i].result = Raise(trace.calls[i].outcome.exc)
        /\ trace.calls[i].outcome.exc \in ExceptionClasses
           => /\ SpanOfCall(i).exceptions = <<trace.calls[i].outcome.exc>>
              /\ SpanOfCall(i).status = <<"ERROR">>
        /\ trace.calls[i].outcome.exc \notin ExceptionClasses
           => /\ SpanOfCall(i).exceptions = <<>>
              /\ SpanOfCall(i).status = <<>>

(***************************************************************************)
(* C26.  On a call where the wrapped function returns normally, the trace  *)
(* decorator (sync or async) calls the function exactly once with the      *)
(* caller's arguments, returns its value unchanged, opens exactly one span,*)
(* named by the explicit override if one is given and by the function name *)
(* otherwise, and sets status OK exactly once with no exception recorded.  *)
(***************************************************************************)
ReturnedCalls ==
    { i \in DecoratedCalls :
        /\ trace.calls[i].pc = "finished"
        /\ trace.calls[i].outcome.kind = "return" }

MethodCalls ==
    { i \in DecoratedCalls : trace.calls[i].func.params[1] \in {"self", "cls"} }

FollowingCaptured(i) ==
    \A k \in 2..Len(trace.calls[i].func.params) :
        /\ trace.calls[i].func.params[k] \in DOMAIN InputsOf(i)
        /\ InputsOf(i)[trace.calls[i].func.params[k]] = Passed(i, k)

C27_ReceiverNeverCaptured ==
    \A i \in MethodCalls :
        /\ "self" \notin DOMAIN InputsOf(i)
        /\ "cls" \notin DOMAIN InputsOf(i)
        /\ FollowingCaptured(i)

\* what the code does keep: a receiver passed positionally is skipped, and
\* the arguments after the receiver are captured under their names
C27_PositionalReceiverSkipped ==
    \A i \in MethodCalls :
        /\ Len(trace.calls[i].args) >= 1
           => DOMAIN InputsOf(i) =
                 { trace.calls[i].func.params[k] :
                     k \in 2..Len(trace.calls[i].func.params) }
        /\ FollowingCaptured(i)

(***************************************************************************)
(* C28.  For any interleaving of concurrent invocations of the same        *)
(* decorated coroutine function, each invocation opens a span of its own   *)
(* that stays open across the await of the wrapped function, and the       *)
(* inputs, the outputs and the status recorded on a span are those of the  *)
(* invocation that opened it.                                              *)
(***************************************************************************)
AsyncCalls == { i \in DecoratedCalls : trace.calls[i].func.is_async }

C28_OwnSpanAcrossAwait ==
    \A i \in AsyncCalls :
        /\ OwnSpan(i)
        /\ Cardinality(Recorded(SpanOfCall(i), "inputs")) = 1
        /\ \A k \in 1..Len(trace.calls[i].func.params) :
             trace.calls[i].func.params[k] \in DOMAIN InputsOf(i)
             => InputsOf(i)[trace.calls[i].func.params[k]]
                  = prepare_for_otel(Passed(i, k))
        /\ trace.calls[i].pc = "awaiting"
           => /\ SpanOfCall(i).ended = 0
              /\ SpanOfCall(i).status = <<>>
              /\ SpanOfCall(i).exceptions = <<>>
              /\ Recorded(SpanOfCall(i), "outputs") = {}
        /\ trace.calls[i].pc = "finished"
           => /\ SpanOfCall(i).ended = 1
              /\ trace.calls[i].outcome.kind = "return"
                 => /\ SpanOfCall(i).status = <<"OK">>
                    /\ Recorded(SpanOfCall(i), "outputs") =
                         { serialize(prepare_for_otel(trace.calls[i].outcome.value)) }
              /\ trace.calls[i].outcome.kind = "raise"
                 => /\ SpanOfCall(i).status \in { <<>>, <<"ERROR">> }
                    /\ SpanOfCall(i).exceptions
                         \in { <<>>, <<trace.calls[i].outcome.exc>> }
                    /\ Recorded(SpanOfCall(i), "outputs") = {}

\* two invocations of async_add with different arguments: the second was
\* started while the first awaited and has finished first
C28_Witness ==
    /\ Len(trace.calls) = 2
    /\ trace.calls[1].kind = "decorated" /\ trace.calls[2].kind = "decorated"
    /\ trace.calls[1].func.name = "async_add"
    /\ trace.calls[2].func.name = "async_add"
    /\ trace.calls[1].args # trace.calls[2].args
    /\ trace.calls[1].pc = "awaiting"
    /\ trace.calls[2].pc = "finished"
    /\ trace.calls[2].outcome.kind = "return"

(***************************************************************************)
(* C29.  The Overmind API key is resolved with the precedence explicit     *)
(* constructor argument, then the OVERMIND_API_KEY environment variable,   *)
(* then a failure at construction: an explicit argument is never           *)
(* overridden by the environment, and construction never succeeds without  *)
(* a key from one of the two.                                              *)
(***************************************************************************)
\* the key the precedence selects: the argument when one is passed, the
\* variable otherwise; an empty string is not a key
Selected(c) == IF c.arg # None THEN c.arg ELSE c.env

Precedence(c) ==
    IF Selected(c) \in {None, ""}
    THEN c.error # NoError
    ELSE c.error = NoError /\ c.key = Selected(c)

C29_KeyPrecedence ==
    \A i \in DOMAIN sdk.constructions : Precedence(sdk.constructions[i])

\* what the code does keep: the precedence, when neither the argument nor
\* the variable is an empty string
C29_NonEmptyKeyPrecedence ==
    \A i \in DOMAIN sdk.constructions :
        sdk.constructions[i].arg # "" /\ sdk.constructions[i].env # ""
        => Precedence(sdk.constructions[i])

CarriedOn(calls, n, sent, replaces(_)) ==
    /\ n > 0
    /\ Len(calls) = n * Len(sent)
    => \A u \in 1..Len(sent) : \A i \in 1..n :
           LET c == calls[(u - 1) * n + i]
           IN  replaces(c.processed_data)
               => c.processed_data = IF i < n
                                     THEN calls[(u - 1) * n + i + 1].input_data
                                     ELSE sent[u]

NotNull(processed_data) == processed_data # None

Truthy(processed_data) == processed_data \notin {None, ""}

C31_ProcessedDataCarried ==
    PreRequestDone /\ req.handler \in {"chatCompletionHandler",
                                       "responsesHandler", "messagesHandler"}
    => CarriedOn(req.calls, Len(req.input_policies),
                 TextsOf(req.handler, req.json), NotNull)

\* what the code carries: a processed_data that is neither null nor empty
C31_NonEmptyProcessedDataCarried ==
    PreRequestDone /\ req.handler \in {"chatCompletionHandler",
                                       "responsesHandler", "messagesHandler"}
    => CarriedOn(req.calls, Len(req.input_policies),
                 TextsOf(req.handler, req.json), Truthy)

(***************************************************************************)
(* C38.  Every finished decorated call leaves exactly one status on its    *)
(* span: OK if the function returned, ERROR if anything escaped from it,   *)
(* a cancellation or an error outside the Exception hierarchy included.    *)
(***************************************************************************)
FinishedCalls ==
    { i \in DecoratedCalls : trace.calls[i].pc = "finished" }

C38_OneStatus ==
    \A i \in FinishedCalls :
        SpanOfCall(i).status =
            IF trace.calls[i].outcome.kind = "return" THEN <<"OK">>
            ELSE <<"ERROR">>

\* the status the wrappers set: OK on a return, ERROR on an error of the
\* Exception hierarchy, none on anything else that escapes
C38_StatusAsSet ==
    \A i \in FinishedCalls :
        SpanOfCall(i).status =
            IF trace.calls[i].outcome.kind = "return" THEN <<"OK">>
            ELSE IF trace.calls[i].outcome.exc \in ExceptionClasses
                 THEN <<"ERROR">>
                 ELSE <<>>

(***************************************************************************)
(* C33.  A request built without a JSON body (json absent or None, as for  *)
(* a GET), on any path, passes through the wrapper unchanged and without   *)
(* raising, in the OpenAI client as in the Anthropic client.               *)
(***************************************************************************)
Builds == DOMAIN http.builds

PassedThrough(build) ==
    /\ ~build.raised
    /\ build.built
    /\ build.json = build.json_in
    /\ build.calls = <<>>

C33_NoBodyPassesThrough ==
    \A i \in Builds :
        http.builds[i].json_in = NoJson => PassedThrough(http.builds[i])

\* the Anthropic wrapper returns early on a missing body
C33_AnthropicNoBodyPassesThrough ==
    \A i \in Builds :
        client.provider = "anthropic" /\ http.builds[i].json_in = NoJson
        => PassedThrough(http.builds[i])

\* the OpenAI wrapper raises on every request without a body
C33_OpenAINoBodyRaises ==
    \A i \in Builds :
        client.provider = "openai" /\ http.builds[i].json_in = NoJson
        => http.builds[i].raised /\ ~http.builds[i].built

(***************************************************************************)
(* C37.  Constructing the wrapped OpenAI or Anthropic client registers the *)
(* response hook exactly once and leaves every request and response event  *)
(* hook already configured on the HTTP client in place.                    *)
(***************************************************************************)
Occurrences(hooks, hook) ==
    Cardinality({ i \in DOMAIN hooks : hooks[i] = hook })

RegisteredOnce ==
    Occurrences(http.event_hooks.response, "run_output_policies") = 1

KeptHooks(event) ==
    \A i \in DOMAIN http.configured[event] :
        Occurrences(http.event_hooks[event], http.configured[event][i]) = 1

C37_HooksKept ==
    http.constructed
    => RegisteredOnce /\ KeptHooks("request") /\ KeptHooks("response")

\* what construction leaves on the HTTP client: the response hook of the
\* wrapper and nothing else
C37_HooksReplaced ==
    http.constructed
    => /\ http.event_hooks.response = <<"run_output_policies">>
       /\ http.event_hooks.request = <<>>

(***************************************************************************)
(* C35.  When the wrapped builder is called a second time with the body    *)
(* object of the first call, as on a retry, the second call resolves the   *)
(* same input and output policy lists as the first.                        *)
(***************************************************************************)
Rebuilds == { i \in Builds : i > 1 }

C35_RetryResolvesSamePolicies ==
    \A i \in Rebuilds :
        /\ http.builds[i].input_policies = http.builds[1].input_policies
        /\ http.builds[i].output_policies = http.builds[1].output_policies

\* the first call popped the override keys from the body object, so a
\* second call resolves the client-wide lists
C35_RetryResolvesDefaults ==
    \A i \in Rebuilds :
        http.builds[i].json_in # NoJson /\ DOMAIN http.builds[i].json_in # {}
        => /\ http.builds[i].input_policies = client.global_input_policies
           /\ http.builds[i].output_policies = client.global_output_policies

(***************************************************************************)
(* C32.  When both resolved policy lists of a request are empty the layer  *)
(* is transparent: for every body on a handled path (an empty messages     *)
(* list, a last message with further keys or without a role, block-list    *)
(* content, an absent input field) the body handed to the request builder  *)
(* is the caller's body and no error is raised.                            *)
(***************************************************************************)
NoPolicies(build) ==
    /\ build.json_in # NoJson
    /\ build.handler # NoHandler
    /\ build.input_policies = <<>>
    /\ build.output_policies = <<>>

Transparent(build) ==
    /\ ~build.raised
    /\ build.built
    /\ build.json = pop_overrides(build.json_in)

C32_TransparentWithoutPolicies ==
    \A i \in Builds :
        NoPolicies(http.builds[i]) => Transparent(http.builds[i])

\* a chat body whose last message is a role and a content, and a responses
\* body with an input field
UsualBody(build) ==
    /\ build.handler = "chatCompletionHandler"
       => /\ build.json_in["messages"] # <<>>
          /\ DOMAIN Last(build.json_in["messages"]) = {"role", "content"}
    /\ build.handler = "responsesHandler" => Has(build.json_in, "input")

\* the OpenAI handlers are transparent on the usual bodies, the Anthropic
\* handler on every body
C32_TransparentOnUsualBodies ==
    \A i \in Builds :
        /\ NoPolicies(http.builds[i])
        /\ client.provider = "openai" => UsualBody(http.builds[i])
        => Transparent(http.builds[i])

\* the Google wrapper without policies hands the caller's contents on
C32_GoogleTransparent ==
    /\ client.provider = "google" /\ HasRequest
    /\ client.global_input_policies = <<>>
    /\ client.global_output_policies = <<>>
    => /\ ~req.raised /\ req.built /\ req.json = req.json_in
       /\ resp.returned /\ resp.json = resp.received

(***************************************************************************)
(* C36.  In the Google wrapper, whenever input policies are configured and *)
(* the contents are non-empty, the text _extract_question reports as the   *)
(* question has been passed through the input policies before the          *)
(* original generate_content is called.                                    *)
(***************************************************************************)
GoogleConfigured ==
    /\ client.provider = "google" /\ HasRequest /\ ~req.raised
    /\ client.global_input_policies # <<>>
    /\ google_truthy(req.json_in)

\* the texts of the caller's contents that make up the question
QuestionTexts(contents) ==
    IF contents.kind = "list" /\ Last(contents.items).kind = "str"
    THEN <<Last(contents.items).text>>
    ELSE GoogleTexts(contents)

\* every policy was run, in list order, on each text of the question, and
\* the question is read from the contents the policies produced
ThroughPolicies(texts) ==
    LET n == Len(client.global_input_policies)
    IN  /\ Len(req.calls) = n * Len(texts)
        /\ \A u \in 1..Len(texts) : \A i \in 1..n :
             /\ req.calls[(u - 1) * n + i].policy = client.global_input_policies[i]
             /\ i = 1 => req.calls[(u - 1) * n + i].input_data = texts[u]
        /\ req.question = google_extract_question(req.json)

C36_QuestionThroughPolicies ==
    GoogleConfigured => ThroughPolicies(QuestionTexts(req.json_in))

\* the question of a string, or of a list whose last item is a dict, went
\* through the policies; a last item that is a string is reported as the
\* question without a single policy run
C36_QuestionOfStringOrParts ==
    GoogleConfigured
    => IF req.json_in.kind = "list" /\ Last(req.json_in.items).kind = "str"
       THEN req.calls = <<>> /\ req.question = Last(req.json_in.items).text
       ELSE ThroughPolicies(QuestionTexts(req.json_in))

(***************************************************************************)
(* C34.  Two runs of the same request that differ only in the verdicts     *)
(* (pass, fail or flag) the policies return have the same body sent to the *)
(* provider, the same decision to send the request and the same response   *)
(* returned to the caller: a verdict reaches the span attributes only.     *)
(***************************************************************************)
\* what the provider and the caller see of a run
Observable(run) ==
    [sent |-> run.req.built,
     body |-> run.req.json,
     request_raised |-> run.req.raised,
     answered |-> run.resp # NoResponse,
     returned |-> IF run.resp = NoResponse THEN FALSE ELSE run.resp.returned,
     response |-> IF run.resp = NoResponse THEN NotJson ELSE run.resp.json,
     response_raised |-> IF run.resp = NoResponse THEN FALSE
                         ELSE run.resp.raised]

C34_VerdictsLeaveRunsAlike ==
    twin.runs # <<>> => Observable(twin.runs[1]) = Observable(twin.runs[2])

\* the verdicts a run's policy calls returned, input calls then output calls
VerdictsOf(run) ==
    [i \in DOMAIN run.req.calls |-> run.req.calls[i].overall_policy_outcome]
    \o (IF run.resp = NoResponse THEN <<>>
        ELSE [i \in DOMAIN run.resp.calls |->
                run.resp.calls[i].overall_policy_outcome])

\* an input policy passed in one run and failed in the other, an output
\* policy flagged in one run and passed in the other, and the spans
\* recorded the different verdicts
C34_Witness ==
    /\ twin.runs # <<>>
    /\ VerdictsOf(twin.runs[1]) = <<"pass", "flag">>
    /\ VerdictsOf(twin.runs[2]) = <<"fail", "pass">>
    /\ twin.runs[1].req.calls[1].attributes.policy_outcome = "pass"
    /\ twin.runs[2].req.calls[1].attributes.policy_outcome = "fail"
    /\ twin.runs[1].req.built /\ twin.runs[1].resp.returned

(***************************************************************************)
(* C39.  In ingest_logs, for every supported format (.jsonl, .json, .csv), *)
(* a failure to read or to record one log item, an invalid .jsonl line     *)
(* included, does not stop the loop: every later item is processed and     *)
(* ingest_logs returns without raising.                                    *)
(***************************************************************************)
IngestEnded ==
    /\ ingest.status \in {"returned", "raised"}
    /\ ingest.suffix \in SupportedSuffixes

\* the items the loop handed to process_log_item
Processed ==
    { ingest.spans[k] : k \in DOMAIN ingest.spans }
    \cup { ingest.failed[k] : k \in DOMAIN ingest.failed }

C39_FailuresDoNotStopIngestion ==
    IngestEnded
    => /\ ingest.status = "returned"
       /\ \A i \in DOMAIN ingest.items :
            ingest.items[i].json => i \in Processed

\* a record that fails validation is printed and skipped, and the loop
\* goes on: in a file without an invalid line every item is processed
C39_RecordFailuresSkipped ==
    /\ IngestEnded
    /\ \A i \in DOMAIN ingest.items : ingest.items[i].json
    => /\ ingest.status = "returned"
       /\ Processed = DOMAIN ingest.items
       /\ \A i \in DOMAIN ingest.items :
            i \in { ingest.failed[k] : k \in DOMAIN ingest.failed }
            <=> process_log_item(ingest.items[i], ingest.mapping).raised

\* an invalid .jsonl line ends the call with json.loads' error, the items
\* after it unprocessed
C39_InvalidLineStops ==
    /\ IngestEnded
    /\ \E i \in DOMAIN ingest.items : ~ingest.items[i].json
    => /\ ingest.status = "raised"
       /\ ingest.error = JSONDecodeError
       /\ ~ingest.items[ingest.next].json
       /\ \A i \in Processed : i < ingest.next

====
